---- MODULE Spec2Model ----
(***************************************************************************)
(* A model of the client-side data layer of Photo-Manager-Fileserver:      *)
(*   - promiseChain and Promise.prototype.progress (the sequential async   *)
(*     pipeline), specification SpecChain;                                 *)
(*   - RootModel.getContentObjects (the windowed content cache),           *)
(*     specification SpecCache.                                            *)
(* Each specification moves its own variables and leaves the others alone. *)
(***************************************************************************)
EXTENDS Integers, Sequences, FiniteSets, Bags, TLC

VARIABLES
    \* ---- promiseChain ----
    list,               \* the list argument
    initial,            \* the result argument (initial accumulator)
    phase,              \* "sync": promiseChain has returned and its caller is still running
                        \* synchronously; "async": continuations (microtasks) may run
    link,               \* link[i]: state and value of the promise created for list item i
    done,               \* the closure variable done
    extraCalls,         \* calls of resolve/reject made by callbacks that had settled already
    onbeforeprogress,   \* finalPromise.onbeforeprogress is set
    onafterprogress,    \* finalPromise.onafterprogress is set
    events,             \* progress events delivered to the handlers, in order
    invoked,            \* the callback invocations, in order: item index and accumulator passed
    beforeSince,        \* callbacks invoked before onbeforeprogress was set (-1: not set)
    afterSince,         \* value of done when onafterprogress was set (-1: not set)
    final,              \* the settlement of the promise promiseChain returned
    \* ---- RootModel (one container object) ----
    queries,            \* the searchQuery values the callers pass
    contents,           \* this.contents: search key -> {count, objectIds}, or no entry
    remote,             \* the remote store's contents of the container, per search key
    calls,              \* the getContentObjects calls suspended at their await (a bag:
                        \* nothing orders them)
    changes,            \* changes of the remote contents so far
    ops,                \* getContentObjects calls made so far
    overlaps,           \* calls made so far while another call was suspended
    ret,                 \* how the call that finished in the last step ended, if one did
                        \* (observation only)
    \* ---- RootModel instances read through getContents ----
    rootModels,         \* per container: this.roots and this.contents, each by search key
    getContentsCalls,   \* the getContents calls under way (a bag), each at its await
    reads,              \* getContents calls made so far
    step,                \* what the last step did: the call it belongs to, whether it
                        \* issued a remote fetch, what it returned (observation only)
    \* ---- Albums: addFile, addFiles, updateParents, changeParent ----
    albums,             \* per album: parentID and the contents entry of the null search key
    remoteAlbums,       \* the remote store: per album, its parent and the files added to it
    tasks,              \* the operations under way (a bag), each at its await
    started,            \* reads and mutations started so far
    dirty,              \* albums whose entry was populated before a mutation that the
                        \* client knows was accepted and that affects them (observation only)
    fresh,              \* albums on which addFiles has resolved and no read was made since,
                        \* with the count the remote store then held (observation only)
    albumStep,               \* what the last step finished, if it finished a read (observation only)
    \* ---- Model operations calling the remote store ----
    opCalls,             \* per call slot: the operation called and how far it has come
    \* ---- apiRequest ----
    api,                 \* the request: its arguments, the response and what the promise got
    \* ---- GridView.getData ----
    grid,                \* the view: its page query, the load under way, the container's
                        \* contents entry and the remote count
    \* ---- ImageLoader ----
    image,              \* the component: props.model, props.maxSize, state and isLoading
    loads,              \* the loadImgData promises not yet settled (a bag)
    arrived,             \* what the last step did, if a load result arrived (observation only)
    \* ---- Entity registry ----
    registry,           \* per entity type the registered instances, and the instances made
    regStep,             \* what the last addObject did (observation only)
    \* ---- FileObject's geotag relation ----
    fileGeo,                 \* a file's geotagID, the registry of the geotags and the serialized
                        \* geotag under way
    \* ---- GridView under changing props ----
    gridView,               \* props, registered contents update handler and displayed data
    propLoads,               \* bag of the loads under way: getData calls suspended at their await,
                        \* and the contents asked for by a registered handler
    \* ---- the album hierarchy ----
    albumTree,              \* registered albums, their parentID, the populated caches, the remote ids
    treeTasks,              \* bag of the album operations suspended at a remote call
    treeStep,                \* what the operation that ended in the last step did
    \* ---- ImageLoader with a fixed model and fixed props ----
    fixedImage,             \* the component, its props and the sizes it has asked for
    fixedLoads,              \* bag of the loads under way
    \* ---- AddressBar ----
    addressBar,             \* props, state.address and what the last result that arrived did
    addressLoads,            \* bag of the getAddress calls under way
    \* ---- SelectionManager ----
    selView,                 \* the view's object list and selection, lastSelected, the open item
                        \* and what the last call did
    \* ---- FileObject.geotagAreaName ----
    namedFile,               \* a file's geotagID, the areaID of the geotags and the last reading
    \* ---- Input ----
    input,                   \* Input.keysDown and the keys held according to the events
    \* ---- SimpleDialog ----
    simpleDialog,            \* the dialog's state.loading, its open prop, the invocations of the
                        \* action under way and what the last step was
    \* ---- FileObject.rotate ----
    rotFile,                 \* a file's orientation, width and height, the save under way and the
                        \* rotations made
    \* ---- PaginationDisplay ----
    pager                   \* the props of the pagination display and what the last step was

chainVars == <<list, initial, phase, link, done, extraCalls,
               onbeforeprogress, onafterprogress, events, invoked,
               beforeSince, afterSince, final>>

cacheVars == <<queries, contents, remote, calls, changes, ops, overlaps, ret>>

rootsVars == <<rootModels, getContentsCalls, reads, step>>

albumVars == <<albums, remoteAlbums, tasks, started, dirty, fresh, albumStep>>

opsVars == <<opCalls>>

apiVars == <<api>>

gridVars == <<grid>>

imageVars == <<image, loads, arrived>>

registryVars == <<registry, regStep>>

geoVars == <<fileGeo>>

propsVars == <<gridView, propLoads>>

treeVars == <<albumTree, treeTasks, treeStep>>

sizesVars == <<fixedImage, fixedLoads>>

addressVars == <<addressBar, addressLoads>>

selectionVars == <<selView>>

areaVars == <<namedFile>>

inputVars == <<input>>

dialogVars == <<simpleDialog>>

rotateVars == <<rotFile>>

pagerVars == <<pager>>

vars == <<chainVars, cacheVars, rootsVars, albumVars, opsVars, apiVars, gridVars, imageVars, registryVars, geoVars, propsVars, treeVars, sizesVars, addressVars, selectionVars, areaVars, inputVars, dialogVars, rotateVars, pagerVars>>

\* ------------------------------------------------------------------------
\* Bounds of the promiseChain model
\* ------------------------------------------------------------------------
MaxLen == 3
MaxExtra == 1

ItemPool == <<"a", "b", "c", "d", "e">>
Lists == {SubSeq(ItemPool, 1, n) : n \in 0..MaxLen}
Reasons == {"e1", "e2"}
Initials == {<<>>, <<"z">>}

\* The value a step callback may resolve with, given its item and the accumulator
\* it was passed: the appending step of the spec, or a step that starts over.
StepData(item, accumulator) == {Append(accumulator, item), <<item>>}

Pending == [state |-> "pending", value |-> <<>>]
Unstarted == [state |-> "unstarted", value |-> <<>>]
InFlight == [state |-> "inflight", value |-> <<>>]
Fulfilled(v) == [state |-> "fulfilled", value |-> v]
Rejected(r) == [state |-> "rejected", value |-> r]

\* ------------------------------------------------------------------------
\* RootModel: data of the windowed content cache
\* ------------------------------------------------------------------------
MaxCount == 3       \* most content objects the remote store holds for one search key
MaxOps == 3         \* getContentObjects calls followed
MaxChanges == 1     \* changes of the remote contents followed
MaxOverlaps == 1    \* calls followed that are made while another call is suspended

\* The page and pageSize arguments.
Pages == {1, 2, 3}
PageSizes == {1, 2}

Min(a, b) == IF a < b THEN a ELSE b

\* null, in objectIds: a slot that has not been fetched
Null == 0

\* The value of a variable of a part of which no object has been built.
Unbuilt == "unbuilt"

\* The searchQuery argument: absent (undefined), empty, or a search term.
Undefined == "undefined"
Queries == {Undefined, "", "a"}
NullKey == "null"
Keys == {NullKey, "a"}

\* this.contents.get(key) === undefined
NoEntry == [has |-> FALSE, count |-> 0, objectIds |-> <<>>]
Entry(count, objectIds) == [has |-> TRUE, count |-> count, objectIds |-> objectIds]

\* Array.prototype.slice(a, b), indices from 0, clamped to the array
SliceJS(s, a, b) ==
    LET lo == Min(a, Len(s))
        hi == Min(b, Len(s))
    IN IF hi <= lo THEN <<>> ELSE SubSeq(s, lo + 1, hi)

\* Array.prototype.slice(a)
SliceFrom(s, a) == SliceJS(s, a, Len(s))

\* new Array(n).fill(null)
Nulls(n) == [i \in 1..n |-> Null]

NoResponse == [kind |-> "none", count |-> 0, objects |-> <<>>]

\* No call has finished yet.
NoReturn ==
    [kind |-> "none", page |-> 0, pageSize |-> 0, key |-> NullKey, count |-> 0,
     objectIds |-> <<>>, existing |-> NoEntry, prior |-> NoEntry, after |-> NoEntry,
     fetched |-> FALSE, alone |-> TRUE, repeat |-> FALSE]

\* The state of the cache variables while another part is looked at.
CacheIdle ==
    /\ queries = Unbuilt
    /\ contents = Unbuilt
    /\ remote = Unbuilt
    /\ calls = Unbuilt
    /\ changes = Unbuilt
    /\ ops = Unbuilt
    /\ overlaps = Unbuilt
    /\ ret = Unbuilt

\* The state of the promiseChain variables while another part is looked at.
ChainIdle ==
    /\ list = Unbuilt
    /\ initial = Unbuilt
    /\ phase = Unbuilt
    /\ link = Unbuilt
    /\ done = Unbuilt
    /\ extraCalls = Unbuilt
    /\ onbeforeprogress = Unbuilt
    /\ onafterprogress = Unbuilt
    /\ events = Unbuilt
    /\ invoked = Unbuilt
    /\ beforeSince = Unbuilt
    /\ afterSince = Unbuilt
    /\ final = Unbuilt

\* ------------------------------------------------------------------------
\* RootModel instances: getRoots, getContentObjects, getContents
\* ------------------------------------------------------------------------
MaxReads == 3       \* getContents calls followed

\* Two container objects: a Folder, whose class has roots, and an Album, whose
\* class has none.
Containers == {1, 2}
ContainerClass(container) == IF container = 1 THEN "Folder" ELSE "Album"

\* A class of containers that all have roots.
HasRootsAlways(container) == TRUE

\* this.constructor.rootModelMeta.hasRoots
HasRoots(container) == ContainerClass(container) = "Folder"

\* The page arguments and the page size of the views.
ViewPages == {1, 2}
ViewPageSize == 2

\* this.roots.get(key) === undefined
NoRoots == [has |-> FALSE, objectIds |-> <<>>]
Roots(objectIds) == [has |-> TRUE, objectIds |-> objectIds]

\* A RootModel instance whose maps are empty.
NewRootModel == [roots |-> [k \in Keys |-> NoRoots], contents |-> [k \in Keys |-> NoEntry]]

\* Nothing was done in the step.
NoStep ==
    [op |-> "none", container |-> 0, key |-> NullKey, query |-> Undefined, page |-> 0,
     fetch |-> FALSE, had |-> FALSE, kind |-> "none", count |-> 0, objectIds |-> <<>>]

\* The state of the getContents variables while another part is looked at.
RootsIdle ==
    /\ rootModels = Unbuilt
    /\ getContentsCalls = Unbuilt
    /\ reads = Unbuilt
    /\ step = Unbuilt

\* ------------------------------------------------------------------------
\* Albums: data
\* ------------------------------------------------------------------------
MaxAlbumReads == 2      \* getContentObjects calls on albums followed
MaxMutations == 1       \* addFile, addFiles and changeParent calls followed

\* Album 2 is a child of album 1; albums 1 and 3 are root-level (parentID null).
AlbumIds == {1, 2, 3}
InitialParent(a) == IF a = 2 THEN 1 ELSE Null
InitialFiles(a) == IF a = 2 THEN 3 ELSE IF a = 1 THEN 1 ELSE 0

\* The lists of file ids passed to addFiles.
FileLists == {<<7>>, <<7, 8>>}

\* No read finished in the step.
NoRead == [kind |-> "none", album |-> 0, count |-> 0, wasDirty |-> FALSE, expected |-> 0]

\* The state of the album variables while another part is looked at.
AlbumIdle ==
    /\ albums = Unbuilt
    /\ remoteAlbums = Unbuilt
    /\ tasks = Unbuilt
    /\ started = Unbuilt
    /\ dirty = Unbuilt
    /\ fresh = Unbuilt
    /\ albumStep = Unbuilt

\* ------------------------------------------------------------------------
\* Model operations calling the remote store: data
\* ------------------------------------------------------------------------
MaxCalls == 2           \* operations called

Slots == 1..MaxCalls

\* What the remote store rejects with.
RemoteErrors == {"e1", "e2"}

\* The operations, with the number of remote calls each awaits one after the
\* other (addFiles: one per file; getContents: getRoots and getContentObjects)
\* and, for changeParent, whether the album is root-level (its parent null).
Operations ==
    {[op |-> o, awaits |-> 1, nullParent |-> FALSE] :
        o \in {"Album.create", "Album.delete", "Album.addFile", "Album.changeParent",
               "GeoTagArea.create", "GeoTagArea.save", "RootModel.getContents",
               "RootModel.getAbsoluteRoots"}}
    \cup {[op |-> o, awaits |-> 2, nullParent |-> FALSE] :
        o \in {"Album.addFiles", "RootModel.getContents"}}
    \cup {[op |-> "Album.changeParent", awaits |-> 1, nullParent |-> TRUE]}

NoOperation == [op |-> "none", awaits |-> 0, nullParent |-> FALSE]

FreeSlot == [call |-> NoOperation, left |-> 0, stage |-> "free", answer |-> "none", value |-> "none"]

\* The state of the operations variable while another part is looked at.
OpsIdle ==
    /\ opCalls = Unbuilt

\* ------------------------------------------------------------------------
\* apiRequest(url, type, data): data
\* ------------------------------------------------------------------------
RequestTypes == {"undefined", "GET", "POST", "PATCH", "DELETE"}

\* The statuses a response is followed with.
Statuses == {200, 201, 204, 400, 404, 500}

\* The bodies of a response: empty, the msgpack encoding of a payload, of an
\* object with a detail field, of an object without one, or bytes that are no
\* msgpack encoding.
Bodies == {"empty", "payload", "detail", "fields", "garbage"}

\* No request made.
NoRequest ==
    [stage |-> "idle", type |-> "none", encData |-> FALSE, accept |-> FALSE, status |-> 0,
     body |-> "none", settles |-> 0, kind |-> "pending", value |-> "none"]

\* The state of the request variable while another part is looked at.
ApiIdle ==
    /\ api = Unbuilt

\* ------------------------------------------------------------------------
\* GridView.getData(props): data
\* ------------------------------------------------------------------------
MaxNavs == 2            \* navigations followed

\* The pages navigated to.
GridPages == {1, 2, 3}

\* The values a remote request is rejected with, other than the remote store's
\* own {detail: "Invalid page."}: undefined, an object with another detail, an
\* object without a detail field.
OtherRejections == {"undefined", "detail:Not found.", "object"}

InvalidPageDetail == "detail:Invalid page."

\* The view before its first load.
NewGrid ==
    [rootId |-> "null", page |-> 1, stage |-> "idle", contents |-> NoEntry, remoteCount |-> 0,
     error |-> "none", fromCache |-> FALSE, handled |-> "none", thrown |-> "none",
     resets |-> 0, navs |-> 0]

\* The state of the view variable while another part is looked at.
GridIdle ==
    /\ grid = Unbuilt

\* ------------------------------------------------------------------------
\* ImageLoader: data
\* ------------------------------------------------------------------------
MaxUpdates == 3         \* model updates and props changes followed

ImageModels == {"A", "B"}

\* The values of props.maxSize.
SizeLimits == {1, 2}

\* null as a size
NoSize == -1

\* null as image data
NoImageData == [model |-> "none", size |-> NoSize]

NoArrival == [result |-> "none", stale |-> FALSE, changed |-> FALSE, reloaded |-> FALSE]

NewImageLoader ==
    [model |-> "A", maxSize |-> 2, loadState |-> NoSize, imageData |-> NoImageData,
     isLoading |-> FALSE, updates |-> 0]

\* The state of the image variables while another part is looked at.
ImageIdle ==
    /\ image = Unbuilt
    /\ loads = Unbuilt
    /\ arrived = Unbuilt

\* ------------------------------------------------------------------------
\* Entity registry: data
\* ------------------------------------------------------------------------
MaxRegistryOps == 3     \* addObject and deleteById calls followed

EntityTypes == {"album", "file", "geotag"}

\* The ids and the field values of the records received.
EntityIds == {1, 2}
FieldValues == {"v1", "v2"}

\* The geotag property of a file record: null or a geotag record.
NoGeotag == [id |-> Null, data |-> "none", locationModified |-> FALSE]
GeotagProps ==
    {NoGeotag} \cup [id : EntityIds, data : FieldValues, locationModified : BOOLEAN]

\* getById finds no instance.
NotFound == 0

NoRegStep ==
    [op |-> "none", type |-> "none", id |-> Null, data |-> "none", before |-> NotFound,
     geotag |-> NoGeotag, geotagBefore |-> NotFound]

NewRegistry == [objects |-> [t \in EntityTypes |-> <<>>], made |-> 0, ops |-> 0]

\* The state of the registry variables while another part is looked at.
RegistryIdle ==
    /\ registry = Unbuilt
    /\ regStep = Unbuilt

\* ------------------------------------------------------------------------
\* FileObject's geotag relation: data
\* ------------------------------------------------------------------------
MaxGeoLoads == 3        \* file records deserialized from the remote store

\* obj.geotag = null
NullWire == [isNull |-> TRUE, id |-> Null, hasLocation |-> FALSE, location |-> "none"]

\* A file without geotag, no geotag registered.
NewGeo ==
    [reg |-> NewRegistry, geotagID |-> Null, stage |-> "loaded", wire |-> NullWire,
     before |-> Null, loads |-> 0]

\* The state of the geotag relation variable while another part is looked at.
GeoIdle ==
    /\ fileGeo = Unbuilt

\* ------------------------------------------------------------------------
\* GridView under changing props: data
\* ------------------------------------------------------------------------
MaxPropChanges == 2     \* changes of props followed

PropRoots == {Null, 1, 2}       \* props.rootId (null: the absolute roots)
PropPages == {1, 2}             \* props.page

\* this.updateHandler before any registration
NoHandler == [rootId |-> Null, page |-> 0]

\* state.data before any load has delivered
NoData == [kind |-> "none", rootId |-> Null, page |-> 0]

\* The data that belongs to props: the absolute roots for rootId null, the
\* page of the contents of the root object otherwise.
DataOf(props) ==
    IF props.rootId = Null THEN [kind |-> "roots", rootId |-> Null, page |-> 0]
    ELSE [kind |-> "contents", rootId |-> props.rootId, page |-> props.page]

\* The handler that belongs to props: none for rootId null.
HandlerOf(props) == IF props.rootId = Null THEN NoHandler ELSE props

\* The state of the variables while another part is looked at.
PropsIdle ==
    /\ gridView = Unbuilt
    /\ propLoads = Unbuilt

\* ------------------------------------------------------------------------
\* The album hierarchy: data
\* ------------------------------------------------------------------------
MaxTreeCalls == 2       \* album operations called

\* A loop over a parent chain that has visited more albums than there are
\* never ends.
MaxWalk == Cardinality(AlbumIds) + 1

\* The lists of file ids passed to addFiles, the empty one among them.
TreeFileLists == {<<>>, <<7>>, <<7, 8>>}

\* Albums 1 and 2 are registered and their contents loaded, 2 is a child of 1.
NewAlbumTree ==
    [registered |-> {1, 2}, parentID |-> [a \in AlbumIds |-> InitialParent(a)],
     cached |-> {1, 2}, remote |-> {1, 2}, calls |-> 0, hung |-> FALSE]

\* No operation ended in the step.
NoTreeStep ==
    [op |-> "none", album |-> Null, multiple |-> FALSE, files |-> <<>>, newParent |-> Null,
     oldParent |-> Null, resp |-> "none", outcome |-> "none", reason |-> "none",
     log |-> <<>>, walks |-> <<>>, before |-> NewAlbumTree]

\* The events of an operation.
Event(e, x) == [e |-> e, x |-> x]

\* The state of the variables while another part is looked at.
TreeIdle ==
    /\ albumTree = Unbuilt
    /\ treeTasks = Unbuilt
    /\ treeStep = Unbuilt

\* ------------------------------------------------------------------------
\* ImageLoader with a fixed model and fixed props: data
\* ------------------------------------------------------------------------
MaxImgSize == 3         \* the largest image size

ImgSizes == 0..MaxImgSize

\* The state of the variables while another part is looked at.
SizesIdle ==
    /\ fixedImage = Unbuilt
    /\ fixedLoads = Unbuilt

\* ------------------------------------------------------------------------
\* AddressBar: data
\* ------------------------------------------------------------------------
MaxAddressChanges == 3  \* changes of props followed

\* props.rootType: folders, and a type getAddress has no case for
AddressRootTypes == {"folders", "other"}

\* props.rootId (null: no root object)
AddressRootIds == {Null, 1, 2}

AddressProps == [rootType : AddressRootTypes, rootId : AddressRootIds]

\* No result arrived in the step.
NoAddressArrival == [result |-> "none", rootType |-> "none", rootId |-> Null, set |-> FALSE]

\* The state of the variables while another part is looked at.
AddressIdle ==
    /\ addressBar = Unbuilt
    /\ addressLoads = Unbuilt

\* ------------------------------------------------------------------------
\* SelectionManager: data
\* ------------------------------------------------------------------------
MaxSelectOps == 3       \* calls and changes followed

\* The ids of the registered files and faces.
ModelIds == {1, 2, 3}

\* What objectList[i] is for an index outside the list, and lastSelected
\* before the first select: undefined
UndefinedId == -1

\* The object lists of a view: the ids in some order, none twice.
ObjectLists ==
    {<<>>} \cup {<<a>> : a \in ModelIds}
           \cup {<<a, b>> : a, b \in ModelIds} \cup {<<a, b, c>> : a, b, c \in ModelIds}

UniqueLists == {l \in ObjectLists : \A j, k \in 1..Len(l) : l[j] = l[k] => j = k}

\* SelectMode
Replace == 0
Toggle == 1
Extend == 2

\* No call made in the step.
NoSelCall ==
    [call |-> "none", mode |-> Replace, id |-> Null, last |-> UndefinedId, before |-> <<>>,
     direction |-> 0, kind |-> "none", value |-> Null]

\* The state of the variable while another part is looked at.
SelectionIdle ==
    /\ selView = Unbuilt

\* ------------------------------------------------------------------------
\* FileObject.geotagAreaName: data
\* ------------------------------------------------------------------------
MaxAreaChanges == 3     \* changes and readings followed

\* The ids of the registered geotags and of the registered areas.
TagIds == {1, 2}
AreaIds == {1, 2}

\* The name of an area.
NameOfArea(areaId) == IF areaId = 1 THEN "Home" ELSE "Work"

\* Nothing read in the step.
NoAreaRead == [read |-> FALSE, kind |-> "none", name |-> "none"]

\* The state of the variable while another part is looked at.
AreaIdle ==
    /\ namedFile = Unbuilt

\* ------------------------------------------------------------------------
\* Input: data
\* ------------------------------------------------------------------------
MaxKeyEvents == 4       \* events and calls followed

\* The values of event.key followed, the space bar's among them.
EventKeys == {" ", "a", "Shift"}

\* The property names keysDown can get.
KeyNames == EventKeys \cup {"Space"}

\* What 'event.key = "Space"' does: it sets the key of an event object whose
\* key can be written; on a KeyboardEvent, whose key has a getter only, it is
\* ignored in sloppy code and a TypeError in strict code.
KeyWrites == {"written", "ignored", "TypeError"}

\* The name isDown is asked for: 'Space' for the space bar.
NameOfKey(key) == IF key = " " THEN "Space" ELSE key

\* The state of the variable while another part is looked at.
InputIdle ==
    /\ input = Unbuilt

\* ------------------------------------------------------------------------
\* SimpleDialog: data
\* ------------------------------------------------------------------------
MaxDialogEvents == 8    \* clicks, settlements and changes of the open prop followed

\* The state of the variable while another part is looked at.
DialogIdle ==
    /\ simpleDialog = Unbuilt

\* ------------------------------------------------------------------------
\* FileObject.rotate: data
\* ------------------------------------------------------------------------
MaxRotations == 4       \* calls of rotate followed
MaxSide == 2            \* widths and heights from 1 to MaxSide

\* const orientations = [1, 6, 3, 8]
Orientations == <<1, 6, 3, 8>>

\* RotateDirection
RotateDirections == {"clockwise", "anticlockwise"}

\* No save under way.
NoSave == [under |-> FALSE, direction |-> "none", orientation |-> 0]

\* The state of the variable while another part is looked at.
RotateIdle ==
    /\ rotFile = Unbuilt

\* ------------------------------------------------------------------------
\* PaginationDisplay: data
\* ------------------------------------------------------------------------
MaxTotal == 60          \* total counts from 0 to MaxTotal
MaxUrlPage == 7         \* pages from 0 to MaxUrlPage can be asked for in the address
MaxPagerEvents == 3     \* selections and navigations followed

\* The page sizes offered.
PageSizeChoices == {10, 25, 50, 100, 200, 500, 1000}

\* The state of the variable while another part is looked at.
PagerIdle ==
    /\ pager = Unbuilt

\* <frame>
\* ------------------------------------------------------------------------
\* The parts of the model are looked at one at a time: while one is, the
\* variables of the others hold Unbuilt and do not change.
\* ------------------------------------------------------------------------
exceptChain == <<cacheVars, rootsVars, albumVars, opsVars, apiVars, gridVars, imageVars, registryVars, geoVars, propsVars, treeVars, sizesVars, addressVars, selectionVars, areaVars, inputVars, dialogVars, rotateVars, pagerVars>>
IdleExceptChain == CacheIdle /\ RootsIdle /\ AlbumIdle /\ OpsIdle /\ ApiIdle /\ GridIdle /\ ImageIdle /\ RegistryIdle /\ GeoIdle /\ PropsIdle /\ TreeIdle /\ SizesIdle /\ AddressIdle /\ SelectionIdle /\ AreaIdle /\ InputIdle /\ DialogIdle /\ RotateIdle /\ PagerIdle

exceptCache == <<chainVars, rootsVars, albumVars, opsVars, apiVars, gridVars, imageVars, registryVars, geoVars, propsVars, treeVars, sizesVars, addressVars, selectionVars, areaVars, inputVars, dialogVars, rotateVars, pagerVars>>
IdleExceptCache == ChainIdle /\ RootsIdle /\ AlbumIdle /\ OpsIdle /\ ApiIdle /\ GridIdle /\ ImageIdle /\ RegistryIdle /\ GeoIdle /\ PropsIdle /\ TreeIdle /\ SizesIdle /\ AddressIdle /\ SelectionIdle /\ AreaIdle /\ InputIdle /\ DialogIdle /\ RotateIdle /\ PagerIdle

exceptRoots == <<chainVars, cacheVars, albumVars, opsVars, apiVars, gridVars, imageVars, registryVars, geoVars, propsVars, treeVars, sizesVars, addressVars, selectionVars, areaVars, inputVars, dialogVars, rotateVars, pagerVars>>
IdleExceptRoots == ChainIdle /\ CacheIdle /\ AlbumIdle /\ OpsIdle /\ ApiIdle /\ GridIdle /\ ImageIdle /\ RegistryIdle /\ GeoIdle /\ PropsIdle /\ TreeIdle /\ SizesIdle /\ AddressIdle /\ SelectionIdle /\ AreaIdle /\ InputIdle /\ DialogIdle /\ RotateIdle /\ PagerIdle

exceptAlbum == <<chainVars, cacheVars, rootsVars, opsVars, apiVars, gridVars, imageVars, registryVars, geoVars, propsVars, treeVars, sizesVars, addressVars, selectionVars, areaVars, inputVars, dialogVars, rotateVars, pagerVars>>
IdleExceptAlbum == ChainIdle /\ CacheIdle /\ RootsIdle /\ OpsIdle /\ ApiIdle /\ GridIdle /\ ImageIdle /\ RegistryIdle /\ GeoIdle /\ PropsIdle /\ TreeIdle /\ SizesIdle /\ AddressIdle /\ SelectionIdle /\ AreaIdle /\ InputIdle /\ DialogIdle /\ RotateIdle /\ PagerIdle

exceptOps == <<chainVars, cacheVars, rootsVars, albumVars, apiVars, gridVars, imageVars, registryVars, geoVars, propsVars, treeVars, sizesVars, addressVars, selectionVars, areaVars, inputVars, dialogVars, rotateVars, pagerVars>>
IdleExceptOps == ChainIdle /\ CacheIdle /\ RootsIdle /\ AlbumIdle /\ ApiIdle /\ GridIdle /\ ImageIdle /\ RegistryIdle /\ GeoIdle /\ PropsIdle /\ TreeIdle /\ SizesIdle /\ AddressIdle /\ SelectionIdle /\ AreaIdle /\ InputIdle /\ DialogIdle /\ RotateIdle /\ PagerIdle

exceptApi == <<chainVars, cacheVars, rootsVars, albumVars, opsVars, gridVars, imageVars, registryVars, geoVars, propsVars, treeVars, sizesVars, addressVars, selectionVars, areaVars, inputVars, dialogVars, rotateVars, pagerVars>>
IdleExceptApi == ChainIdle /\ CacheIdle /\ RootsIdle /\ AlbumIdle /\ OpsIdle /\ GridIdle /\ ImageIdle /\ RegistryIdle /\ GeoIdle /\ PropsIdle /\ TreeIdle /\ SizesIdle /\ AddressIdle /\ SelectionIdle /\ AreaIdle /\ InputIdle /\ DialogIdle /\ RotateIdle /\ PagerIdle

exceptGrid == <<chainVars, cacheVars, rootsVars, albumVars, opsVars, apiVars, imageVars, registryVars, geoVars, propsVars, treeVars, sizesVars, addressVars, selectionVars, areaVars, inputVars, dialogVars, rotateVars, pagerVars>>
IdleExceptGrid == ChainIdle /\ CacheIdle /\ RootsIdle /\ AlbumIdle /\ OpsIdle /\ ApiIdle /\ ImageIdle /\ RegistryIdle /\ GeoIdle /\ PropsIdle /\ TreeIdle /\ SizesIdle /\ AddressIdle /\ SelectionIdle /\ AreaIdle /\ InputIdle /\ DialogIdle /\ RotateIdle /\ PagerIdle

exceptImage == <<chainVars, cacheVars, rootsVars, albumVars, opsVars, apiVars, gridVars, registryVars, geoVars, propsVars, treeVars, sizesVars, addressVars, selectionVars, areaVars, inputVars, dialogVars, rotateVars, pagerVars>>
IdleExceptImage == ChainIdle /\ CacheIdle /\ RootsIdle /\ AlbumIdle /\ OpsIdle /\ ApiIdle /\ GridIdle /\ RegistryIdle /\ GeoIdle /\ PropsIdle /\ TreeIdle /\ SizesIdle /\ AddressIdle /\ SelectionIdle /\ AreaIdle /\ InputIdle /\ DialogIdle /\ RotateIdle /\ PagerIdle

exceptRegistry == <<chainVars, cacheVars, rootsVars, albumVars, opsVars, apiVars, gridVars, imageVars, geoVars, propsVars, treeVars, sizesVars, addressVars, selectionVars, areaVars, inputVars, dialogVars, rotateVars, pagerVars>>
IdleExceptRegistry == ChainIdle /\ CacheIdle /\ RootsIdle /\ AlbumIdle /\ OpsIdle /\ ApiIdle /\ GridIdle /\ ImageIdle /\ GeoIdle /\ PropsIdle /\ TreeIdle /\ SizesIdle /\ AddressIdle /\ SelectionIdle /\ AreaIdle /\ InputIdle /\ DialogIdle /\ RotateIdle /\ PagerIdle

exceptGeo == <<chainVars, cacheVars, rootsVars, albumVars, opsVars, apiVars, gridVars, imageVars, registryVars, propsVars, treeVars, sizesVars, addressVars, selectionVars, areaVars, inputVars, dialogVars, rotateVars, pagerVars>>
IdleExceptGeo == ChainIdle /\ CacheIdle /\ RootsIdle /\ AlbumIdle /\ OpsIdle /\ ApiIdle /\ GridIdle /\ ImageIdle /\ RegistryIdle /\ PropsIdle /\ TreeIdle /\ SizesIdle /\ AddressIdle /\ SelectionIdle /\ AreaIdle /\ InputIdle /\ DialogIdle /\ RotateIdle /\ PagerIdle

exceptProps == <<chainVars, cacheVars, rootsVars, albumVars, opsVars, apiVars, gridVars, imageVars, registryVars, geoVars, treeVars, sizesVars, addressVars, selectionVars, areaVars, inputVars, dialogVars, rotateVars, pagerVars>>
IdleExceptProps == ChainIdle /\ CacheIdle /\ RootsIdle /\ AlbumIdle /\ OpsIdle /\ ApiIdle /\ GridIdle /\ ImageIdle /\ RegistryIdle /\ GeoIdle /\ TreeIdle /\ SizesIdle /\ AddressIdle /\ SelectionIdle /\ AreaIdle /\ InputIdle /\ DialogIdle /\ RotateIdle /\ PagerIdle

exceptTree == <<chainVars, cacheVars, rootsVars, albumVars, opsVars, apiVars, gridVars, imageVars, registryVars, geoVars, propsVars, sizesVars, addressVars, selectionVars, areaVars, inputVars, dialogVars, rotateVars, pagerVars>>
IdleExceptTree == ChainIdle /\ CacheIdle /\ RootsIdle /\ AlbumIdle /\ OpsIdle /\ ApiIdle /\ GridIdle /\ ImageIdle /\ RegistryIdle /\ GeoIdle /\ PropsIdle /\ SizesIdle /\ AddressIdle /\ SelectionIdle /\ AreaIdle /\ InputIdle /\ DialogIdle /\ RotateIdle /\ PagerIdle

exceptSizes == <<chainVars, cacheVars, rootsVars, albumVars, opsVars, apiVars, gridVars, imageVars, registryVars, geoVars, propsVars, treeVars, addressVars, selectionVars, areaVars, inputVars, dialogVars, rotateVars, pagerVars>>
IdleExceptSizes == ChainIdle /\ CacheIdle /\ RootsIdle /\ AlbumIdle /\ OpsIdle /\ ApiIdle /\ GridIdle /\ ImageIdle /\ RegistryIdle /\ GeoIdle /\ PropsIdle /\ TreeIdle /\ AddressIdle /\ SelectionIdle /\ AreaIdle /\ InputIdle /\ DialogIdle /\ RotateIdle /\ PagerIdle

exceptAddress == <<chainVars, cacheVars, rootsVars, albumVars, opsVars, apiVars, gridVars, imageVars, registryVars, geoVars, propsVars, treeVars, sizesVars, selectionVars, areaVars, inputVars, dialogVars, rotateVars, pagerVars>>
IdleExceptAddress == ChainIdle /\ CacheIdle /\ RootsIdle /\ AlbumIdle /\ OpsIdle /\ ApiIdle /\ GridIdle /\ ImageIdle /\ RegistryIdle /\ GeoIdle /\ PropsIdle /\ TreeIdle /\ SizesIdle /\ SelectionIdle /\ AreaIdle /\ InputIdle /\ DialogIdle /\ RotateIdle /\ PagerIdle

exceptSelection == <<chainVars, cacheVars, rootsVars, albumVars, opsVars, apiVars, gridVars, imageVars, registryVars, geoVars, propsVars, treeVars, sizesVars, addressVars, areaVars, inputVars, dialogVars, rotateVars, pagerVars>>
IdleExceptSelection == ChainIdle /\ CacheIdle /\ RootsIdle /\ AlbumIdle /\ OpsIdle /\ ApiIdle /\ GridIdle /\ ImageIdle /\ RegistryIdle /\ GeoIdle /\ PropsIdle /\ TreeIdle /\ SizesIdle /\ AddressIdle /\ AreaIdle /\ InputIdle /\ DialogIdle /\ RotateIdle /\ PagerIdle

exceptArea == <<chainVars, cacheVars, rootsVars, albumVars, opsVars, apiVars, gridVars, imageVars, registryVars, geoVars, propsVars, treeVars, sizesVars, addressVars, selectionVars, inputVars, dialogVars, rotateVars, pagerVars>>
IdleExceptArea == ChainIdle /\ CacheIdle /\ RootsIdle /\ AlbumIdle /\ OpsIdle /\ ApiIdle /\ GridIdle /\ ImageIdle /\ RegistryIdle /\ GeoIdle /\ PropsIdle /\ TreeIdle /\ SizesIdle /\ AddressIdle /\ SelectionIdle /\ InputIdle /\ DialogIdle /\ RotateIdle /\ PagerIdle

exceptInput == <<chainVars, cacheVars, rootsVars, albumVars, opsVars, apiVars, gridVars, imageVars, registryVars, geoVars, propsVars, treeVars, sizesVars, addressVars, selectionVars, areaVars, dialogVars, rotateVars, pagerVars>>
IdleExceptInput == ChainIdle /\ CacheIdle /\ RootsIdle /\ AlbumIdle /\ OpsIdle /\ ApiIdle /\ GridIdle /\ ImageIdle /\ RegistryIdle /\ GeoIdle /\ PropsIdle /\ TreeIdle /\ SizesIdle /\ AddressIdle /\ SelectionIdle /\ AreaIdle /\ DialogIdle /\ RotateIdle /\ PagerIdle

exceptDialog == <<chainVars, cacheVars, rootsVars, albumVars, opsVars, apiVars, gridVars, imageVars, registryVars, geoVars, propsVars, treeVars, sizesVars, addressVars, selectionVars, areaVars, inputVars, rotateVars, pagerVars>>
IdleExceptDialog == ChainIdle /\ CacheIdle /\ RootsIdle /\ AlbumIdle /\ OpsIdle /\ ApiIdle /\ GridIdle /\ ImageIdle /\ RegistryIdle /\ GeoIdle /\ PropsIdle /\ TreeIdle /\ SizesIdle /\ AddressIdle /\ SelectionIdle /\ AreaIdle /\ InputIdle /\ RotateIdle /\ PagerIdle

exceptRotate == <<chainVars, cacheVars, rootsVars, albumVars, opsVars, apiVars, gridVars, imageVars, registryVars, geoVars, propsVars, treeVars, sizesVars, addressVars, selectionVars, areaVars, inputVars, dialogVars, pagerVars>>
IdleExceptRotate == ChainIdle /\ CacheIdle /\ RootsIdle /\ AlbumIdle /\ OpsIdle /\ ApiIdle /\ GridIdle /\ ImageIdle /\ RegistryIdle /\ GeoIdle /\ PropsIdle /\ TreeIdle /\ SizesIdle /\ AddressIdle /\ SelectionIdle /\ AreaIdle /\ InputIdle /\ DialogIdle /\ PagerIdle

exceptPager == <<chainVars, cacheVars, rootsVars, albumVars, opsVars, apiVars, gridVars, imageVars, registryVars, geoVars, propsVars, treeVars, sizesVars, addressVars, selectionVars, areaVars, inputVars, dialogVars, rotateVars>>
IdleExceptPager == ChainIdle /\ CacheIdle /\ RootsIdle /\ AlbumIdle /\ OpsIdle /\ ApiIdle /\ GridIdle /\ ImageIdle /\ RegistryIdle /\ GeoIdle /\ PropsIdle /\ TreeIdle /\ SizesIdle /\ AddressIdle /\ SelectionIdle /\ AreaIdle /\ InputIdle /\ DialogIdle /\ RotateIdle
\* </frame>

\* ------------------------------------------------------------------------
\* promiseChain(list, callback, result)
\* ------------------------------------------------------------------------

\* Promise.resolve(result) seeds the reduce; with an empty list it is what
\* promiseChain returns.
ChainInit ==
    /\ list \in Lists
    /\ initial \in Initials
    /\ phase = "sync"
    /\ link = [i \in 1..Len(list) |-> Unstarted]
    /\ done = 0
    /\ extraCalls = 0
    /\ onbeforeprogress = FALSE
    /\ onafterprogress = FALSE
    /\ events = <<>>
    /\ invoked = <<>>
    /\ beforeSince = -1
    /\ afterSince = -1
    /\ final = IF list = <<>> THEN Fulfilled(initial) ELSE Pending

\* Promise.prototype.progress(callback, before): sets the handler on the promise
\* it is called on, here the promise promiseChain returned. A second call would
\* replace the handler; the model follows one handler of each kind.
Progress(before) ==
    /\ IF before
         THEN /\ ~onbeforeprogress
              /\ onbeforeprogress' = TRUE
              /\ beforeSince' = Len(invoked)
              /\ UNCHANGED <<onafterprogress, afterSince>>
         ELSE /\ ~onafterprogress
              /\ onafterprogress' = TRUE
              /\ afterSince' = done
              /\ UNCHANGED <<onbeforeprogress, beforeSince>>
    /\ UNCHANGED <<list, initial, phase, link, done, extraCalls, events, invoked, final>>

\* The synchronous code that called promiseChain runs to completion; only then
\* can a continuation registered with .then() run.
EndSync ==
    /\ phase = "sync"
    /\ phase' = "async"
    /\ UNCHANGED <<list, initial, link, done, extraCalls,
                   onbeforeprogress, onafterprogress, events, invoked,
               beforeSince, afterSince, final>>

\* Continuations that could run inside the call of promiseChain.
ContinuationsRunInline == TRUE

\* A .then() continuation runs as a job of its own, never inside the call of
\* promiseChain that registered it.
ContinuationsMayRun == phase = "async"

\* A chain whose continuations do not wait for the previous item's promise.
ChainReadyAtOnce(i) == TRUE

\* promiseChain.then(function (accumulator) {...}): the continuation of item i runs
\* once the promise of item i-1 (Promise.resolve(result) for the first) is fulfilled.
ChainReady(i) == IF i = 1 THEN TRUE ELSE link[i - 1].state = "fulfilled"

\* A continuation that is passed the initial value instead of the previous result.
AccumulatorInitial(i) == initial

\* The accumulator the continuation of item i is passed.
Accumulator(i) == IF i = 1 THEN initial ELSE link[i - 1].value

BeforeEvent(i) ==
    [kind |-> "before", idx |-> i, item |-> list[i], result |-> Accumulator(i),
     doneCount |-> done, totalCount |-> Len(list)]

AfterEvent(i, data) ==
    [kind |-> "after", idx |-> i, item |-> list[i], result |-> data,
     doneCount |-> done + 1, totalCount |-> Len(list)]

\* The continuation of item i: fires onbeforeprogress if set, creates the promise
\* of item i and invokes callback(resolveWrapper, reject, item, accumulator).
ThenCallback(i) ==
    /\ ContinuationsMayRun
    /\ i = Len(invoked) + 1
    /\ i <= Len(list)
    /\ ChainReady(i)
    /\ events' = IF onbeforeprogress THEN Append(events, BeforeEvent(i)) ELSE events
    /\ link' = [link EXCEPT ![i] = InFlight]
    /\ invoked' = Append(invoked, [idx |-> i, accumulator |-> Accumulator(i)])
    /\ UNCHANGED <<list, initial, phase, done, extraCalls,
                   onbeforeprogress, onafterprogress, beforeSince, afterSince, final>>

\* A callback that has been invoked may call resolve or reject, and nothing in
\* promiseChain stops it from calling them again after its promise has settled;
\* the model follows MaxExtra such further calls.
MayCall(i) == link[i].state = "inflight" \/ extraCalls < MaxExtra

\* The callback of item i calls the function it was given as resolve:
\*   done++; onafterprogress(...) if set; resolve(data).
\* resolve(data) settles the promise of item i only if it is still pending.
CallResolve(i, data) ==
    /\ i \in 1..Len(invoked)
    /\ MayCall(i)
    /\ data \in StepData(list[i], invoked[i].accumulator)
    /\ extraCalls' = IF link[i].state = "inflight" THEN extraCalls ELSE extraCalls + 1
    /\ done' = done + 1
    /\ events' = IF onafterprogress THEN Append(events, AfterEvent(i, data)) ELSE events
    /\ IF link[i].state = "inflight"
         THEN /\ link' = [link EXCEPT ![i] = Fulfilled(data)]
              /\ final' = IF i = Len(list) THEN Fulfilled(data) ELSE final
         ELSE UNCHANGED <<link, final>>
    /\ UNCHANGED <<list, initial, phase, onbeforeprogress, onafterprogress, invoked,
                   beforeSince, afterSince>>

\* The callback of item i calls reject(reason): the promise of item i, if still
\* pending, rejects; no later .then() has a rejection handler, so the rejection
\* passes through every later link to the promise promiseChain returned.
CallReject(i, reason) ==
    /\ i \in 1..Len(invoked)
    /\ MayCall(i)
    /\ extraCalls' = IF link[i].state = "inflight" THEN extraCalls ELSE extraCalls + 1
    /\ IF link[i].state = "inflight"
         THEN /\ link' = [link EXCEPT ![i] = Rejected(reason)]
              /\ final' = Rejected(reason)
         ELSE UNCHANGED <<link, final>>
    /\ UNCHANGED <<list, initial, phase, done, onbeforeprogress, onafterprogress,
                   events, invoked, beforeSince, afterSince>>

ChainNext ==
    \/ \E before \in BOOLEAN : Progress(before) /\ UNCHANGED exceptChain
    \/ EndSync /\ UNCHANGED exceptChain
    \/ \E i \in 1..Len(list) : ThenCallback(i) /\ UNCHANGED exceptChain
    \/ \E i \in 1..Len(invoked) : \E data \in StepData(list[i], invoked[i].accumulator) :
          CallResolve(i, data) /\ UNCHANGED exceptChain
    \/ \E i \in 1..Len(invoked) : \E reason \in Reasons :
          CallReject(i, reason) /\ UNCHANGED exceptChain

InitChain == ChainInit /\ IdleExceptChain

SpecChain == InitChain /\ [][ChainNext]_vars

\* ------------------------------------------------------------------------
\* The remote store, as loadFiltered sees it
\* ------------------------------------------------------------------------

\* The id of the i-th content object of a search key, in a version of the remote
\* contents: ids of different keys and versions differ.
RemoteId(key, ver, i) == (IF key = NullKey THEN 100 ELSE 200) + 10 * ver + i

RemoteIds(key) == [i \in 1..remote[key].count |-> RemoteId(key, remote[key].ver, i)]

\* The remote store answers a page that starts beyond its count (other than page
\* 1) with the error {detail: "Invalid page."}.
RemotePageValid(key, page, pageSize) ==
    page = 1 \/ (page - 1) * pageSize < remote[key].count

\* loadFiltered(filter, page, pageSize): {count, objects} of the requested page.
LoadFiltered(key, page, pageSize) ==
    IF RemotePageValid(key, page, pageSize)
    THEN [kind |-> "ok", count |-> remote[key].count,
          objects |-> SliceJS(RemoteIds(key), (page - 1) * pageSize, page * pageSize)]
    ELSE [kind |-> "error", count |-> 0, objects |-> <<>>]

\* The remote request fails (RemoteFailure).
RemoteFailure == [kind |-> "error", count |-> 0, objects |-> <<>>]

\* ------------------------------------------------------------------------
\* RootModel.getContentObjects(page, pageSize, searchQuery)
\* ------------------------------------------------------------------------

\* searchQuery = searchQuery || null
NormKey(searchQuery) == IF searchQuery \in {Undefined, ""} THEN NullKey ELSE searchQuery

\* The search keys of the queries in use.
UsedKeys == {NormKey(q) : q \in queries}

\* A check that lets the page starting exactly at the count through.
InvalidPageBeyond(existingContents, page, pageSize) ==
    existingContents.count > 0 /\ (page - 1) * pageSize > existingContents.count

\* existingContents.count > 0 && (page - 1) * pageSize >= existingContents.count
InvalidPage(existingContents, page, pageSize) ==
    existingContents.count > 0 /\ (page - 1) * pageSize >= existingContents.count

\* existingContents.objectIds.slice((page - 1) * pageSize, page * pageSize)
PageIds(existingContents, page, pageSize) ==
    SliceJS(existingContents.objectIds, (page - 1) * pageSize, page * pageSize)

\* pageIds.every(id => id !== null)
EveryKnown(pageIds) == \A i \in 1..Len(pageIds) : pageIds[i] # Null

\* oldIds, from the entry the call read before its await
OldIds(existingContents, count) ==
    IF existingContents.has THEN existingContents.objectIds ELSE Nulls(count)

\* oldIds.slice(0, (page - 1) * pageSize).concat(newIds.concat(oldIds.slice(page * pageSize)))
AllObjectIds(oldIds, newIds, page, pageSize) ==
    SliceJS(oldIds, 0, (page - 1) * pageSize) \o newIds \o SliceFrom(oldIds, page * pageSize)

\* Whether the call being made repeats, as the very next step, the call that
\* has just resolved.
Repeats(page, pageSize, key) ==
    /\ ret.kind \in {"cached", "fetched"}
    /\ ret.page = page /\ ret.pageSize = pageSize /\ ret.key = key

Returned(kind, page, pageSize, key, count, objectIds, existing, prior, after, fetched, alone, repeat) ==
    [kind |-> kind, page |-> page, pageSize |-> pageSize, key |-> key, count |-> count,
     objectIds |-> objectIds, existing |-> existing, prior |-> prior, after |-> after,
     fetched |-> fetched, alone |-> alone, repeat |-> repeat]

\* The suspended calls, once another call is made during their await. A call
\* marked alone is the only one suspended.
Overlapped(suspended) ==
    IF \E call \in BagToSet(suspended) : call.alone
    THEN SetToBag({[call EXCEPT !.alone = FALSE] : call \in BagToSet(suspended)})
    ELSE suspended

\* The call up to its return, its throw or its await.
GetContentObjects(page, pageSize, searchQuery) ==
    LET key == NormKey(searchQuery)
        existingContents == contents[key]
        pageIds == PageIds(existingContents, page, pageSize)
        repeat == Repeats(page, pageSize, key)
    IN
    /\ searchQuery \in queries
    /\ ops < MaxOps
    /\ ops' = ops + 1
    /\ IF existingContents.has /\ InvalidPage(existingContents, page, pageSize)
       THEN \* throw { detail: "Invalid page." }
            /\ ret' = Returned("invalid", page, pageSize, key, 0, <<>>, existingContents,
                                existingContents, contents[key], FALSE, calls = EmptyBag, repeat)
            /\ UNCHANGED <<contents, calls, overlaps>>
       ELSE IF existingContents.has /\ EveryKnown(pageIds)
       THEN \* return { count: existingContents.count, objectIds: pageIds }
            /\ ret' = Returned("cached", page, pageSize, key, existingContents.count, pageIds,
                                existingContents, existingContents, contents[key],
                                FALSE, calls = EmptyBag, repeat)
            /\ UNCHANGED <<contents, calls, overlaps>>
       ELSE \* await contentsClass.loadFiltered(...)
            /\ calls # EmptyBag => overlaps < MaxOverlaps
            /\ overlaps' = IF calls # EmptyBag THEN overlaps + 1 ELSE overlaps
            /\ calls' = Overlapped(calls) (+)
                           SetToBag({[page |-> page, pageSize |-> pageSize, key |-> key,
                                      existing |-> existingContents, resp |-> NoResponse,
                                      alone |-> calls = EmptyBag, repeat |-> repeat]})
            /\ ret' = NoReturn
            /\ UNCHANGED contents
    /\ UNCHANGED <<queries, remote, changes>>

\* The remote store answers the request of a suspended call from its contents
\* of the moment.
RemoteServe(call) ==
    /\ BagIn(call, calls)
    /\ call.resp.kind = "none"
    /\ calls' = (calls (-) SetToBag({call})) (+)
                   SetToBag({[call EXCEPT !.resp =
                                 LoadFiltered(call.key, call.page, call.pageSize)]})
    /\ ret' = NoReturn
    /\ UNCHANGED <<queries, contents, remote, changes, ops, overlaps>>

WithoutCall(call) == calls (-) SetToBag({call})

\* A suspended call resumes after its await: a failed request (one the remote store
\* answered with an error, or one that was lost) is rethrown; otherwise the entry
\* of the search key is replaced and the page returned.
Resume(call, fails) ==
    /\ BagIn(call, calls)
    /\ call.resp.kind # "none"
    /\ fails => call.resp.kind = "ok"
    /\ LET contentsData == IF fails THEN RemoteFailure ELSE call.resp
           oldIds == OldIds(call.existing, contentsData.count)
           newIds == contentsData.objects
           allObjectIds == AllObjectIds(oldIds, newIds, call.page, call.pageSize)
           stored == Entry(contentsData.count, allObjectIds)
       IN IF contentsData.kind = "error"
          THEN /\ ret' = Returned("failed", call.page, call.pageSize, call.key, 0, <<>>,
                                   call.existing, contents[call.key], contents[call.key],
                                   TRUE, call.alone, call.repeat)
               /\ UNCHANGED contents
          ELSE /\ contents' = [contents EXCEPT ![call.key] = stored]
               /\ ret' = Returned("fetched", call.page, call.pageSize, call.key,
                                   contentsData.count, newIds, call.existing,
                                   contents[call.key], stored, TRUE, call.alone, call.repeat)
    /\ calls' = WithoutCall(call)
    /\ UNCHANGED <<queries, remote, changes, ops, overlaps>>

\* The contents of the container change in the remote store (files added or
\* removed by this or another client) without the cache being told.
RemoteChange(key, count) ==
    /\ key \in UsedKeys
    /\ changes < MaxChanges
    /\ changes' = changes + 1
    /\ count # remote[key].count
    /\ remote' = [remote EXCEPT ![key] = [ver |-> @.ver + 1, count |-> count]]
    /\ ret' = NoReturn
    /\ UNCHANGED <<queries, contents, calls, ops, overlaps>>

\* The cache of a container that was just created, before any call; the remote
\* store holds any number of content objects for the search keys in use.
CacheInit ==
    /\ queries = {Undefined, ""}
    /\ contents = [k \in Keys |-> NoEntry]
    /\ remote \in {r \in [Keys -> [ver : {0}, count : 0..MaxCount]] :
                      \A k \in Keys \ {NormKey(q) : q \in {Undefined, ""}} : r[k].count = 0}
    /\ calls = EmptyBag
    /\ changes = 0
    /\ ops = 0
    /\ overlaps = 0
    /\ ret = NoReturn

CacheNext ==
    \/ \E page \in Pages : \E pageSize \in PageSizes : \E searchQuery \in Queries :
          GetContentObjects(page, pageSize, searchQuery) /\ UNCHANGED exceptCache
    \/ \E call \in BagToSet(calls) : RemoteServe(call) /\ UNCHANGED exceptCache
    \/ \E call \in BagToSet(calls) : \E fails \in BOOLEAN :
          Resume(call, fails) /\ UNCHANGED exceptCache
    \/ \E key \in Keys : \E count \in 0..MaxCount :
          RemoteChange(key, count) /\ UNCHANGED exceptCache

InitCache == CacheInit /\ IdleExceptCache

SpecCache == InitCache /\ [][CacheNext]_vars

\* ------------------------------------------------------------------------
\* The remote store, as the getContents calls of the containers see it: its
\* contents do not change here.
\* ------------------------------------------------------------------------

\* The ids of the roots (child containers) of a container that match a search key.
RemoteRootIds(container, key) ==
    IF ~HasRoots(container) THEN <<>>
    ELSE IF key = NullKey THEN <<10 * container + 1, 10 * container + 2>>
    ELSE <<10 * container + 2>>

\* The ids of the content objects of a container that match a search key.
RemoteContentIds(container, key) ==
    LET n == IF key = NullKey THEN 3 ELSE 1
    IN [i \in 1..n |-> 1000 * container + (IF key = NullKey THEN 100 ELSE 200) + i]

\* contentsClass.loadFiltered(filter, page, pageSize) for a container
LoadContents(container, key, page, pageSize) ==
    LET ids == RemoteContentIds(container, key)
    IN IF page = 1 \/ (page - 1) * pageSize < Len(ids)
       THEN [kind |-> "ok", count |-> Len(ids),
             objects |-> SliceJS(ids, (page - 1) * pageSize, page * pageSize)]
       ELSE RemoteFailure

\* ------------------------------------------------------------------------
\* RootModel.getContents(page, pageSize, searchQuery), with getRoots and
\* getContentObjects
\* ------------------------------------------------------------------------

\* Map.prototype.set(key, value)
MapSetAll(map, key, value) == [k \in DOMAIN map |-> value]

MapSet(map, key, value) == [map EXCEPT ![key] = value]

StepOf(op, call, fetch, had, kind, count, objectIds) ==
    [op |-> op, container |-> call.container, key |-> call.key, query |-> call.query,
     page |-> call.page, fetch |-> fetch, had |-> had, kind |-> kind, count |-> count,
     objectIds |-> objectIds]

ReplaceCall(call, new) == (getContentsCalls (-) SetToBag({call})) (+) SetToBag({new})

\* getContents is called: getRoots runs up to its return or its await.
GetContents(container, page, pageSize, searchQuery) ==
    LET key == NormKey(searchQuery)
        existingRootIds == rootModels[container].roots[key]
        call == [container |-> container, page |-> page, pageSize |-> pageSize,
                 query |-> searchQuery, key |-> key, stage |-> "getRoots",
                 existing |-> NoEntry]
    IN
    /\ reads < MaxReads
    /\ reads' = reads + 1
    /\ IF ~HasRoots(container)
       THEN \* return null
            /\ getContentsCalls' = getContentsCalls (+) SetToBag({[call EXCEPT !.stage = "gotRoots"]})
            /\ step' = StepOf("getRoots", call, FALSE, existingRootIds.has, "null", 0, <<>>)
       ELSE IF existingRootIds.has
       THEN \* return { objectIds: existingRootIds }
            /\ getContentsCalls' = getContentsCalls (+) SetToBag({[call EXCEPT !.stage = "gotRoots"]})
            /\ step' = StepOf("getRoots", call, FALSE, TRUE, "cached", 0,
                               existingRootIds.objectIds)
       ELSE \* await this.constructor.loadFiltered(...)
            /\ getContentsCalls' = getContentsCalls (+) SetToBag({call})
            /\ step' = StepOf("getRoots", call, TRUE, FALSE, "none", 0, <<>>)
    /\ UNCHANGED rootModels

\* getRoots resumes after its await: the ids are stored under the search key,
\* or the failure of the request is rethrown, which ends getContents.
GetRootsResume(call, fails) ==
    /\ BagIn(call, getContentsCalls)
    /\ call.stage = "getRoots"
    /\ IF fails
       THEN /\ getContentsCalls' = getContentsCalls (-) SetToBag({call})
            /\ step' = StepOf("getRootsDone", call, FALSE, FALSE, "failed", 0, <<>>)
            /\ UNCHANGED rootModels
       ELSE LET objectIds == RemoteRootIds(call.container, call.key)
            IN /\ rootModels' = [rootModels EXCEPT ![call.container].roots =
                                    MapSet(@, call.key, Roots(objectIds))]
               /\ getContentsCalls' = ReplaceCall(call, [call EXCEPT !.stage = "gotRoots"])
               /\ step' = StepOf("getRootsDone", call, FALSE,
                                  rootModels[call.container].roots[call.key].has,
                                  "fetched", 0, objectIds)
    /\ UNCHANGED reads

\* getContents goes on after getRoots: getContentObjects runs up to its return,
\* its throw or its await.
GetContentsContents(call) ==
    LET existingContents == rootModels[call.container].contents[call.key]
        pageIds == PageIds(existingContents, call.page, call.pageSize)
    IN
    /\ BagIn(call, getContentsCalls)
    /\ call.stage = "gotRoots"
    /\ IF existingContents.has /\ InvalidPage(existingContents, call.page, call.pageSize)
       THEN /\ getContentsCalls' = getContentsCalls (-) SetToBag({call})
            /\ step' = StepOf("getContentObjects", call, FALSE, TRUE, "invalid", 0, <<>>)
       ELSE IF existingContents.has /\ EveryKnown(pageIds)
       THEN /\ getContentsCalls' = getContentsCalls (-) SetToBag({call})
            /\ step' = StepOf("getContentObjects", call, FALSE, TRUE, "cached",
                               existingContents.count, pageIds)
       ELSE /\ getContentsCalls' = ReplaceCall(call, [call EXCEPT !.stage = "getContentObjects",
                                                                  !.existing = existingContents])
            /\ step' = StepOf("getContentObjects", call, TRUE, existingContents.has, "none",
                               0, <<>>)
    /\ UNCHANGED <<rootModels, reads>>

\* getContentObjects resumes after its await, which ends getContents.
GetContentObjectsResume(call, fails) ==
    LET contentsData == IF fails THEN RemoteFailure
                        ELSE LoadContents(call.container, call.key, call.page, call.pageSize)
        oldIds == OldIds(call.existing, contentsData.count)
        newIds == contentsData.objects
        allObjectIds == AllObjectIds(oldIds, newIds, call.page, call.pageSize)
    IN
    /\ BagIn(call, getContentsCalls)
    /\ call.stage = "getContentObjects"
    /\ fails => LoadContents(call.container, call.key, call.page, call.pageSize).kind = "ok"
    /\ getContentsCalls' = getContentsCalls (-) SetToBag({call})
    /\ IF contentsData.kind = "error"
       THEN /\ step' = StepOf("getContentObjectsDone", call, FALSE, call.existing.has,
                               "failed", 0, <<>>)
            /\ UNCHANGED rootModels
       ELSE /\ rootModels' = [rootModels EXCEPT ![call.container].contents =
                                 MapSet(@, call.key, Entry(contentsData.count, allObjectIds))]
            /\ step' = StepOf("getContentObjectsDone", call, FALSE, call.existing.has,
                               "fetched", contentsData.count, newIds)
    /\ UNCHANGED reads

RootsInit ==
    /\ rootModels = [c \in Containers |-> NewRootModel]
    /\ getContentsCalls = EmptyBag
    /\ reads = 0
    /\ step = NoStep

RootsNext ==
    \/ \E container \in Containers : \E page \in ViewPages : \E searchQuery \in Queries :
          GetContents(container, page, ViewPageSize, searchQuery) /\ UNCHANGED exceptRoots
    \/ \E call \in BagToSet(getContentsCalls) : \E fails \in BOOLEAN :
          GetRootsResume(call, fails) /\ UNCHANGED exceptRoots
    \/ \E call \in BagToSet(getContentsCalls) :
          GetContentsContents(call) /\ UNCHANGED exceptRoots
    \/ \E call \in BagToSet(getContentsCalls) : \E fails \in BOOLEAN :
          GetContentObjectsResume(call, fails) /\ UNCHANGED exceptRoots

InitRoots == RootsInit /\ IdleExceptRoots

SpecRoots == InitRoots /\ [][RootsNext]_vars

\* ------------------------------------------------------------------------
\* The remote store of the albums
\* ------------------------------------------------------------------------

\* An album and its ancestors, from the album up, along a parent relation.
RECURSIVE Lineage(_, _, _)
Lineage(parentOf, a, fuel) ==
    IF a = Null \/ fuel = 0 THEN <<>>
    ELSE <<a>> \o Lineage(parentOf, parentOf[a], fuel - 1)

LineageSet(parentOf, a) ==
    LET l == Lineage(parentOf, a, Cardinality(AlbumIds)) IN {l[i] : i \in 1..Len(l)}

RemoteParentOf == [a \in AlbumIds |-> remoteAlbums[a].parent]

RECURSIVE SumFiles(_)
SumFiles(S) ==
    IF S = {} THEN 0
    ELSE LET a == CHOOSE x \in S : TRUE IN remoteAlbums[a].files + SumFiles(S \ {a})

\* The number of files of an album: those added to it and to the albums below it.
RemoteFileCount(a) == SumFiles({b \in AlbumIds : a \in LineageSet(RemoteParentOf, b)})

\* FileObject.loadFiltered({album: a}, page, pageSize)
LoadAlbumFiles(a, page, pageSize) ==
    LET ids == [i \in 1..RemoteFileCount(a) |-> 10 * a + i]
    IN IF page = 1 \/ (page - 1) * pageSize < Len(ids)
       THEN [kind |-> "ok", count |-> Len(ids),
             objects |-> SliceJS(ids, (page - 1) * pageSize, page * pageSize)]
       ELSE RemoteFailure

\* ------------------------------------------------------------------------
\* Album.addFile, Album.addFiles, Album.updateParents, Album.changeParent and
\* the reads of the albums' contents
\* ------------------------------------------------------------------------

\* Album.parent, of every album
ParentOf(as) == [a \in AlbumIds |-> as[a].parentID]

\* resetData(): the album's caches are emptied
ResetData(album) == [album EXCEPT !.contents = NoEntry]

\* updateParents(), called on album a: the album and every ancestor is reset
UpdateParents(as, a) ==
    [b \in AlbumIds |-> IF b \in LineageSet(ParentOf(as), a) THEN ResetData(as[b]) ELSE as[b]]

\* The albums with an entry, among an album and its ancestors.
Populated(as, a) == {b \in LineageSet(ParentOf(as), a) : as[b].contents.has}

WithoutTask(task) == tasks (-) SetToBag({task})
WithTask(task, new) == (tasks (-) SetToBag({task})) (+) SetToBag({new})

NoExpectation == [a \in AlbumIds |-> 0]

\* getContentObjects(1, pageSize) of album a, up to its return or its await
ReadAlbum(a) ==
    LET existingContents == albums[a].contents
        pageIds == PageIds(existingContents, 1, ViewPageSize)
    IN
    /\ started.reads < MaxAlbumReads
    /\ started' = [started EXCEPT !.reads = @ + 1]
    /\ IF existingContents.has /\ EveryKnown(pageIds)
       THEN /\ albumStep' = [kind |-> "cached", album |-> a, count |-> existingContents.count,
                         wasDirty |-> a \in dirty, expected |-> fresh[a]]
            /\ fresh' = [fresh EXCEPT ![a] = 0]
            /\ UNCHANGED tasks
       ELSE /\ tasks' = tasks (+) SetToBag({[op |-> "read", album |-> a, files |-> <<>>,
                                             i |-> 0, newParent |-> Null, oldParent |-> Null,
                                             existing |-> existingContents,
                                             resp |-> NoResponse, expected |-> fresh[a]]})
            /\ fresh' = [fresh EXCEPT ![a] = 0]
            /\ albumStep' = NoRead
    /\ UNCHANGED <<albums, remoteAlbums, dirty>>

\* The remote store answers the request of a read from its contents of the moment.
ServeRead(task) ==
    /\ BagIn(task, tasks)
    /\ task.op = "read"
    /\ task.resp.kind = "none"
    /\ tasks' = WithTask(task, [task EXCEPT !.resp = LoadAlbumFiles(task.album, 1, ViewPageSize)])
    /\ albumStep' = NoRead
    /\ UNCHANGED <<albums, remoteAlbums, started, dirty, fresh>>

\* getContentObjects resumes after its await
ResumeRead(task) ==
    LET contentsData == task.resp
        oldIds == OldIds(task.existing, contentsData.count)
        newIds == contentsData.objects
        allObjectIds == AllObjectIds(oldIds, newIds, 1, ViewPageSize)
    IN
    /\ BagIn(task, tasks)
    /\ task.op = "read"
    /\ task.resp.kind = "ok"
    /\ tasks' = WithoutTask(task)
    /\ albums' = [albums EXCEPT ![task.album].contents = Entry(contentsData.count, allObjectIds)]
    /\ dirty' = dirty \ {task.album}
    /\ albumStep' = [kind |-> "fetched", album |-> task.album, count |-> contentsData.count,
                 wasDirty |-> FALSE, expected |-> task.expected]
    /\ UNCHANGED <<remoteAlbums, started, fresh>>

\* addFile(fileId) is called on album a: Database.create is awaited
AddFile(a, fileId) ==
    /\ started.mutations < MaxMutations
    /\ started' = [started EXCEPT !.mutations = @ + 1]
    /\ tasks' = tasks (+) SetToBag({[op |-> "addFile", album |-> a, files |-> <<fileId>>,
                                     i |-> 1, newParent |-> Null, oldParent |-> Null,
                                     existing |-> NoEntry, resp |-> NoResponse, expected |-> 0]})
    /\ albumStep' = NoRead
    /\ UNCHANGED <<albums, remoteAlbums, dirty, fresh>>

\* addFiles(files) is called on album a: promiseChain starts addFile(files[0], true)
AddFiles(a, files) ==
    /\ started.mutations < MaxMutations
    /\ started' = [started EXCEPT !.mutations = @ + 1]
    /\ tasks' = tasks (+) SetToBag({[op |-> "addFiles", album |-> a, files |-> files,
                                     i |-> 1, newParent |-> Null, oldParent |-> Null,
                                     existing |-> NoEntry, resp |-> NoResponse, expected |-> 0]})
    /\ albumStep' = NoRead
    /\ UNCHANGED <<albums, remoteAlbums, dirty, fresh>>

\* The remote store accepts or rejects the Database.create of the file a task
\* is adding.
RemoteCreate(task, accepts) ==
    /\ BagIn(task, tasks)
    /\ task.op \in {"addFile", "addFiles"}
    /\ task.resp.kind = "none"
    /\ tasks' = WithTask(task, [task EXCEPT !.resp.kind = IF accepts THEN "ok" ELSE "error"])
    /\ remoteAlbums' = IF accepts
                       THEN [remoteAlbums EXCEPT ![task.album].files = @ + 1]
                       ELSE remoteAlbums
    /\ albumStep' = NoRead
    /\ UNCHANGED <<albums, started, dirty, fresh>>

\* addFile resumes after its await: a rejection is rethrown; otherwise
\* updateParents is called (multiple is false)
AddFileResume(task) ==
    /\ BagIn(task, tasks)
    /\ task.op = "addFile"
    /\ task.resp.kind # "none"
    /\ tasks' = WithoutTask(task)
    /\ IF task.resp.kind = "ok"
       THEN /\ albums' = UpdateParents(albums, task.album)
            /\ dirty' = (dirty \cup Populated(albums, task.album))
                           \ {b \in AlbumIds : ~albums'[b].contents.has}
       ELSE UNCHANGED <<albums, dirty>>
    /\ albumStep' = NoRead
    /\ UNCHANGED <<remoteAlbums, started, fresh>>

\* addFile(fileId, true) of addFiles resumes and its promise settles: on a
\* rejection promiseChain rejects and addFiles rethrows; otherwise promiseChain
\* starts the next file or, after the last, resolves and updateParents is
\* called.
AddFilesResume(task) ==
    /\ BagIn(task, tasks)
    /\ task.op = "addFiles"
    /\ task.resp.kind # "none"
    /\ IF task.resp.kind = "error"
       THEN /\ tasks' = WithoutTask(task)
            /\ UNCHANGED <<albums, dirty, fresh>>
       ELSE IF task.i < Len(task.files)
       THEN /\ tasks' = WithTask(task, [task EXCEPT !.i = @ + 1, !.resp = NoResponse])
            /\ dirty' = dirty \cup Populated(albums, task.album)
            /\ UNCHANGED <<albums, fresh>>
       ELSE /\ tasks' = WithoutTask(task)
            /\ albums' = UpdateParents(albums, task.album)
            /\ dirty' = (dirty \cup Populated(albums, task.album))
                           \ {b \in AlbumIds : ~albums'[b].contents.has}
            /\ fresh' = [fresh EXCEPT ![task.album] = RemoteFileCount(task.album)]
    /\ albumStep' = NoRead
    /\ UNCHANGED <<remoteAlbums, started>>

\* changeParent(newParentId) is called on album a: oldParent is read and
\* updateSave is awaited. The moves of an album under itself or under one of
\* its descendants are followed with the album hierarchy, under SpecTree.
ChangeParent(a, newParentId) ==
    /\ started.mutations < MaxMutations
    /\ newParentId # albums[a].parentID
    /\ a \notin LineageSet(ParentOf(albums), newParentId)
    /\ started' = [started EXCEPT !.mutations = @ + 1]
    /\ tasks' = tasks (+) SetToBag({[op |-> "changeParent", album |-> a, files |-> <<>>,
                                     i |-> 0, newParent |-> newParentId,
                                     oldParent |-> albums[a].parentID,
                                     existing |-> NoEntry, resp |-> NoResponse, expected |-> 0]})
    /\ albumStep' = NoRead
    /\ UNCHANGED <<albums, remoteAlbums, dirty, fresh>>

\* The remote store accepts or rejects the update of the parent.
RemoteUpdate(task, accepts) ==
    /\ BagIn(task, tasks)
    /\ task.op = "changeParent"
    /\ task.resp.kind = "none"
    /\ tasks' = WithTask(task, [task EXCEPT !.resp.kind = IF accepts THEN "ok" ELSE "error"])
    /\ remoteAlbums' = IF accepts
                       THEN [remoteAlbums EXCEPT ![task.album].parent = task.newParent]
                       ELSE remoteAlbums
    /\ albumStep' = NoRead
    /\ UNCHANGED <<albums, started, dirty, fresh>>

\* changeParent resumes after updateSave, which has set the new parentID:
\* oldParent.updateParents() and this.parent.updateParents() are called, each
\* throwing a TypeError, which ends changeParent, when that parent is null.
ChangeParentResume(task) ==
    LET moved == [albums EXCEPT ![task.album].parentID = task.newParent]
        afterOld == IF task.oldParent = Null THEN moved ELSE UpdateParents(moved, task.oldParent)
        afterNew == IF task.oldParent = Null \/ task.newParent = Null THEN afterOld
                    ELSE UpdateParents(afterOld, task.newParent)
        affected == (IF task.oldParent = Null THEN {} ELSE Populated(albums, task.oldParent))
                    \cup (IF task.newParent = Null THEN {} ELSE Populated(albums, task.newParent))
    IN
    /\ BagIn(task, tasks)
    /\ task.op = "changeParent"
    /\ task.resp.kind # "none"
    /\ tasks' = WithoutTask(task)
    /\ IF task.resp.kind = "ok"
       THEN /\ albums' = afterNew
            /\ dirty' = (dirty \cup affected) \ {b \in AlbumIds : ~albums'[b].contents.has}
       ELSE UNCHANGED <<albums, dirty>>
    /\ albumStep' = NoRead
    /\ UNCHANGED <<remoteAlbums, started, fresh>>

AlbumInit ==
    /\ albums = [a \in AlbumIds |-> [parentID |-> InitialParent(a), contents |-> NoEntry]]
    /\ remoteAlbums = [a \in AlbumIds |-> [parent |-> InitialParent(a), files |-> InitialFiles(a)]]
    /\ tasks = EmptyBag
    /\ started = [reads |-> 0, mutations |-> 0]
    /\ dirty = {}
    /\ fresh = NoExpectation
    /\ albumStep = NoRead

AlbumNext ==
    \/ \E a \in AlbumIds : ReadAlbum(a) /\ UNCHANGED exceptAlbum
    \/ \E task \in BagToSet(tasks) : ServeRead(task) /\ UNCHANGED exceptAlbum
    \/ \E task \in BagToSet(tasks) : ResumeRead(task) /\ UNCHANGED exceptAlbum
    \/ \E a \in AlbumIds : AddFile(a, 7) /\ UNCHANGED exceptAlbum
    \/ \E a \in AlbumIds : \E files \in FileLists : AddFiles(a, files) /\ UNCHANGED exceptAlbum
    \/ \E task \in BagToSet(tasks) : \E accepts \in BOOLEAN :
          RemoteCreate(task, accepts) /\ UNCHANGED exceptAlbum
    \/ \E task \in BagToSet(tasks) : AddFileResume(task) /\ UNCHANGED exceptAlbum
    \/ \E task \in BagToSet(tasks) : AddFilesResume(task) /\ UNCHANGED exceptAlbum
    \/ \E a \in AlbumIds : \E newParentId \in AlbumIds \cup {Null} :
          ChangeParent(a, newParentId) /\ UNCHANGED exceptAlbum
    \/ \E task \in BagToSet(tasks) : \E accepts \in BOOLEAN :
          RemoteUpdate(task, accepts) /\ UNCHANGED exceptAlbum
    \/ \E task \in BagToSet(tasks) : ChangeParentResume(task) /\ UNCHANGED exceptAlbum

InitAlbum == AlbumInit /\ IdleExceptAlbum

SpecAlbum == InitAlbum /\ [][AlbumNext]_vars

\* ------------------------------------------------------------------------
\* Album.create, Album.delete, Album.addFile, Album.addFiles,
\* Album.changeParent, GeoTagArea.create, GeoTagArea.save,
\* RootModel.getContents, RootModel.getAbsoluteRoots: how each passes on the
\* outcome of its remote calls
\* ------------------------------------------------------------------------

\* Whether a rejection of the awaited remote promise reaches the promise the
\* operation returned: the async methods rethrow at their await, the methods
\* building a Promise by hand pass reject to .catch, all but GeoTagArea.save,
\* which chains .then only.
RejectionReachesCaller(op) == op # "GeoTagArea.save"

\* An operation is called: it runs up to its first await.
CallOperation(s, call) ==
    /\ opCalls[s].stage = "free"
    /\ opCalls' = [opCalls EXCEPT ![s] = [call |-> call, left |-> call.awaits,
                                          stage |-> "awaiting", answer |-> "none",
                                          value |-> "none"]]

\* The remote store settles the promise the operation waits for.
RemoteAnswers(s, outcome) ==
    /\ opCalls[s].stage = "awaiting"
    /\ opCalls' = [opCalls EXCEPT ![s].stage = "answered", ![s].answer = outcome]

\* The continuation of the operation runs.
ContinueOperation(s) ==
    LET c == opCalls[s] IN
    /\ c.stage = "answered"
    /\ opCalls' = [opCalls EXCEPT ![s] =
          IF c.answer # "ok"
          THEN IF RejectionReachesCaller(c.call.op)
               THEN [c EXCEPT !.stage = "rejected", !.value = c.answer]
               ELSE [c EXCEPT !.stage = "dropped"]
          ELSE IF c.left > 1
          THEN [c EXCEPT !.stage = "awaiting", !.left = @ - 1, !.answer = "none"]
          ELSE IF c.call.nullParent
          THEN [c EXCEPT !.stage = "rejected", !.value = "TypeError"]
          ELSE [c EXCEPT !.stage = "resolved", !.value = "ok"]]

OpsInit == opCalls = [s \in Slots |-> FreeSlot]

OpsCall == \E s \in Slots : \E call \in Operations : CallOperation(s, call) /\ UNCHANGED exceptOps

OpsAnswer ==
    \E s \in Slots : \E outcome \in {"ok"} \cup RemoteErrors :
        RemoteAnswers(s, outcome) /\ UNCHANGED exceptOps

OpsContinue == \E s \in Slots : ContinueOperation(s) /\ UNCHANGED exceptOps

OpsNext ==
    \/ OpsCall
    \/ OpsAnswer
    \/ OpsContinue

InitOps == OpsInit /\ IdleExceptOps

\* The remote store answers every request and every continuation that can run
\* does run.
SpecOps == InitOps /\ [][OpsNext]_vars /\ WF_vars(OpsAnswer) /\ WF_vars(OpsContinue)

\* ------------------------------------------------------------------------
\* apiRequest(url, type, data)
\* ------------------------------------------------------------------------

\* [200, 201, 204].indexOf(this.status) !== -1
StatusOk(status) == status \in {200, 201, 204}

\* msgpack.decode(byteArray): the decoded value, or the error thrown
Decode(body) ==
    IF body = "garbage" THEN [thrown |-> TRUE, value |-> "decodeError"]
    ELSE [thrown |-> FALSE, value |-> body]

\* Whether a value a promise was settled with is an object with a detail field.
HasDetail(value) == value = "detail"

\* resolve(value) or reject(value) is called: the first call settles the promise
Settle(request, kind, value) ==
    [request EXCEPT !.stage = "settled", !.settles = @ + 1,
                    !.kind = IF request.kind = "pending" THEN kind ELSE @,
                    !.value = IF request.kind = "pending" THEN value ELSE @]

\* apiRequest is called: the request is opened and sent
ApiRequest(type, data) ==
    LET t == IF type = "undefined" THEN "GET" ELSE type IN
    /\ api.stage = "idle"
    /\ api' = [NoRequest EXCEPT !.stage = "sent", !.type = t, !.encData = data,
                                !.accept = (t # "DELETE")]

\* xhr.onload: the response has arrived
XhrOnload(status, body) ==
    /\ api.stage = "sent"
    /\ api' = IF body = "empty"
              THEN IF StatusOk(status)
                   THEN Settle([api EXCEPT !.status = status, !.body = body],
                               "resolved", "undefined")
                   ELSE Settle([api EXCEPT !.status = status, !.body = body],
                               "rejected", "undefined")
              ELSE [api EXCEPT !.stage = "reading", !.status = status, !.body = body]

\* xhr.onerror: the request failed without a response
XhrOnerror ==
    /\ api.stage = "sent"
    /\ api' = Settle(api, "rejected", "event")

\* fileReader.onload: the body was read
FileReaderOnload ==
    LET resData == Decode(api.body) IN
    /\ api.stage = "reading"
    /\ api' = IF resData.thrown THEN Settle(api, "rejected", resData.value)
              ELSE IF StatusOk(api.status) THEN Settle(api, "resolved", resData.value)
              ELSE Settle(api, "rejected", resData.value)

\* fileReader.onerror: the body could not be read
FileReaderOnerror ==
    /\ api.stage = "reading"
    /\ api' = Settle(api, "rejected", "event")

ApiInit == api = NoRequest

ApiNext ==
    \/ \E type \in RequestTypes : \E data \in BOOLEAN : ApiRequest(type, data) /\ UNCHANGED exceptApi
    \/ \E status \in Statuses : \E body \in Bodies : XhrOnload(status, body) /\ UNCHANGED exceptApi
    \/ XhrOnerror /\ UNCHANGED exceptApi
    \/ FileReaderOnload /\ UNCHANGED exceptApi
    \/ FileReaderOnerror /\ UNCHANGED exceptApi

InitApi == ApiInit /\ IdleExceptApi

SpecApi == InitApi /\ [][ApiNext]_vars

\* ------------------------------------------------------------------------
\* GridView.getData(props) and the error handler it registers
\* ------------------------------------------------------------------------

\* "detail" in error: a TypeError is thrown when error is not an object
InThrows(error) == error = "undefined"

\* "detail" in error && error.detail === "Invalid page."
IsInvalidPage(error) == error = InvalidPageDetail

\* loadFiltered of the container's contents, from the remote count of the moment
LoadGridContents(count, page, pageSize) ==
    LET ids == [i \in 1..count |-> 100 + i] IN
    IF page = 1 \/ (page - 1) * pageSize < count
    THEN [kind |-> "ok", count |-> count,
          objects |-> SliceJS(ids, (page - 1) * pageSize, page * pageSize)]
    ELSE RemoteFailure

\* The location changes: the view is constructed or updated with the new props
\* and getData(props) is called.
Navigate(rootId, page) ==
    /\ grid.stage \in {"idle", "shown", "failed"}
    /\ grid.navs < MaxNavs
    /\ grid' = [grid EXCEPT !.rootId = rootId, !.page = page, !.stage = "getData",
                            !.error = "none", !.fromCache = FALSE, !.handled = "none",
                            !.thrown = "none", !.resets = 0, !.navs = @ + 1]

\* getData(props) up to its await: getAbsoluteRoots for the null root, else the
\* handlers are registered and getContents runs up to its return, its throw or
\* its remote request.
GetData ==
    LET pageIds == PageIds(grid.contents, grid.page, ViewPageSize) IN
    /\ grid.stage = "getData"
    /\ grid' = IF grid.rootId = "null" THEN [grid EXCEPT !.handled = "none", !.stage = "fetching"]
               ELSE IF grid.contents.has /\ InvalidPage(grid.contents, grid.page, ViewPageSize)
               THEN [grid EXCEPT !.handled = "none", !.stage = "rejected", !.error = InvalidPageDetail,
                                 !.fromCache = TRUE]
               ELSE IF grid.contents.has /\ EveryKnown(pageIds)
               THEN [grid EXCEPT !.handled = "none", !.stage = "shown"]
               ELSE [grid EXCEPT !.handled = "none", !.stage = "fetching"]

\* The remote request is answered from the remote count, or fails otherwise.
GridResponse(rejection) ==
    LET contentsData == LoadGridContents(grid.remoteCount, grid.page, ViewPageSize)
        oldIds == OldIds(grid.contents, contentsData.count)
        allObjectIds == AllObjectIds(oldIds, contentsData.objects, grid.page, ViewPageSize)
    IN
    /\ grid.stage = "fetching"
    /\ grid' = IF rejection # "none"
               THEN [grid EXCEPT !.handled = "none", !.stage = IF grid.rootId = "null" THEN "failed" ELSE "rejected",
                                 !.error = rejection,
                                 !.thrown = IF grid.rootId = "null" THEN rejection ELSE "none"]
               ELSE IF grid.rootId = "null" THEN [grid EXCEPT !.handled = "none", !.stage = "shown"]
               ELSE IF contentsData.kind = "ok"
               THEN [grid EXCEPT !.handled = "none", !.stage = "shown",
                                 !.contents = Entry(contentsData.count, allObjectIds)]
               ELSE [grid EXCEPT !.handled = "none", !.stage = "rejected", !.error = InvalidPageDetail]

\* The error handler registered by getData runs with the rejection value:
\* LocationManager.updateQuery({page: "1"}), after which the view gets the new
\* page and calls getData again, or the value is thrown.
ErrorHandler ==
    /\ grid.stage = "rejected"
    /\ grid' = IF InThrows(grid.error)
               THEN [grid EXCEPT !.stage = "failed", !.handled = "throw", !.thrown = "TypeError"]
               ELSE IF IsInvalidPage(grid.error)
               THEN [grid EXCEPT !.stage = IF grid.page = 1 THEN "failed" ELSE "getData",
                                 !.page = 1, !.handled = "reset", !.resets = @ + 1,
                                 !.fromCache = FALSE]
               ELSE [grid EXCEPT !.stage = "failed", !.handled = "throw", !.thrown = grid.error]

\* The contents of the container change in the remote store.
GridRemoteChange(count) ==
    /\ grid.remoteCount # count
    /\ grid.navs < MaxNavs
    /\ grid' = [grid EXCEPT !.remoteCount = count, !.handled = "none"]

GridInit == grid = NewGrid

GridNext ==
    \/ \E rootId \in {"null", "container"} : \E page \in GridPages :
          Navigate(rootId, page) /\ UNCHANGED exceptGrid
    \/ GetData /\ UNCHANGED exceptGrid
    \/ \E rejection \in {"none"} \cup OtherRejections :
          GridResponse(rejection) /\ UNCHANGED exceptGrid
    \/ ErrorHandler /\ UNCHANGED exceptGrid
    \/ \E count \in 0..MaxCount : GridRemoteChange(count) /\ UNCHANGED exceptGrid

InitGrid == GridInit /\ IdleExceptGrid

SpecGrid == InitGrid /\ [][GridNext]_vars

\* ------------------------------------------------------------------------
\* ImageLoader: loadImg, loadNext, loadFirst, onModelUpdate,
\* shouldComponentUpdate. The methods take and give the component together
\* with the loads under way, [c |-> component, l |-> loads].
\* ------------------------------------------------------------------------

\* loadImg(size, props): isLoading is set and props.model.loadImgData is called
LoadImg(s, size, model) ==
    [c |-> [s.c EXCEPT !.isLoading = TRUE],
     l |-> s.l (+) SetToBag({[model |-> model, size |-> size]})]

\* A loadNext that asks for the size of loadState again.
LoadNextAgain(s, model, maxSize, minSize) ==
    IF s.c.isLoading \/ (s.c.loadState # NoSize /\ s.c.loadState > maxSize) THEN s
    ELSE LoadImg(s, IF s.c.loadState = NoSize THEN minSize ELSE s.c.loadState, model)

\* loadNext(props), minSize being props.minSize || 0
LoadNextFrom(s, model, maxSize, minSize) ==
    IF s.c.isLoading \/ (s.c.loadState # NoSize /\ s.c.loadState >= maxSize) THEN s
    ELSE LoadImg(s, IF s.c.loadState = NoSize THEN minSize ELSE s.c.loadState + 1, model)

\* loadNext(props) with props.minSize not set
LoadNext(s, model, maxSize) == LoadNextFrom(s, model, maxSize, 0)

\* loadFirst(props), startState being what props.model.getBestImgSize gave
LoadFirstFrom(s, startState, model, maxSize, minSize) ==
    IF startState = NoSize THEN LoadNextFrom(s, model, maxSize, minSize)
    ELSE LoadImg(s, startState, model)

\* loadFirst(props) with props.minSize not set
LoadFirst(s, startState, model, maxSize) == LoadFirstFrom(s, startState, model, maxSize, 0)

\* The state is reset: imageData and loadState are set to null
ResetState(s) == [s EXCEPT !.c.imageData = NoImageData, !.c.loadState = NoSize]

\* Whether a result is for the model the component shows:
\* props.model !== this.props.model is false
ForCurrentModel(load) == load.model = image.model

\* What the arrival of a result did.
Arrival(result, load, s) ==
    [result |-> result, stale |-> ~ForCurrentModel(load),
     changed |-> s.c.imageData # image.imageData \/ s.c.loadState # image.loadState,
     reloaded |-> \E n \in BagToSet(s.l) :
                     /\ n.model = load.model
                     /\ CopiesIn(n, s.l) > CopiesIn(n, loads (-) SetToBag({load}))]

\* onModelUpdate(model): the handler registered by the constructor runs, at
\* registration and at every update of the model
OnModelUpdate(startState) ==
    LET s == LoadFirst(ResetState([c |-> image, l |-> loads]), startState,
                       image.model, image.maxSize)
    IN
    /\ image.updates < MaxUpdates
    /\ image' = [s.c EXCEPT !.updates = @ + 1]
    /\ loads' = s.l
    /\ arrived' = NoArrival

\* shouldComponentUpdate(nextProps), nextProps holding another model: the
\* state is reset and the handler is registered on the new model, which runs
\* onModelUpdate(model) while this.props are still the old ones
ChangeModel(model, startState) ==
    LET s == LoadFirst(ResetState([c |-> image, l |-> loads]), startState,
                       model, image.maxSize)
    IN
    /\ image.updates < MaxUpdates
    /\ model # image.model
    /\ image' = [s.c EXCEPT !.model = model, !.updates = @ + 1]
    /\ loads' = s.l
    /\ arrived' = NoArrival

\* shouldComponentUpdate(nextProps), nextProps holding the same model and
\* another maxSize: loadFirst(nextProps)
ChangeMaxSize(maxSize, startState) ==
    LET s == LoadFirst([c |-> image, l |-> loads], startState, image.model, maxSize) IN
    /\ image.updates < MaxUpdates
    /\ maxSize # image.maxSize
    /\ image' = [s.c EXCEPT !.maxSize = maxSize, !.updates = @ + 1]
    /\ loads' = s.l
    /\ arrived' = NoArrival

\* loadImgData resolves: the .then of loadImg runs
LoadResolves(load) ==
    LET oldState == image.loadState
        set == [c |-> [image EXCEPT !.imageData = load, !.loadState = load.size,
                                    !.isLoading = FALSE],
                l |-> loads (-) SetToBag({load})]
        s == IF ~ForCurrentModel(load) THEN [c |-> image, l |-> loads (-) SetToBag({load})]
             ELSE IF oldState # NoSize THEN LoadNext(set, image.model, image.maxSize)
             ELSE set
    IN
    /\ BagIn(load, loads)
    /\ image' = s.c
    /\ loads' = s.l
    /\ arrived' = Arrival("resolved", load, s)

\* loadImgData rejects: the .catch of loadImg runs
LoadRejects(load) ==
    LET set == [c |-> [image EXCEPT !.loadState = load.size, !.isLoading = FALSE],
                l |-> loads (-) SetToBag({load})]
        s == LoadNext(set, image.model, image.maxSize)
    IN
    /\ BagIn(load, loads)
    /\ image' = s.c
    /\ loads' = s.l
    /\ arrived' = Arrival("rejected", load, s)

\* img.onLoad: the image is displayed, loadNext()
ImgOnLoad ==
    LET s == LoadNext([c |-> image, l |-> loads], image.model, image.maxSize) IN
    /\ image.imageData # NoImageData
    /\ s.l # loads
    /\ image' = s.c
    /\ loads' = s.l
    /\ arrived' = NoArrival

ImageInit == image = NewImageLoader /\ loads = EmptyBag /\ arrived = NoArrival

ImageNext ==
    \/ \E startState \in {NoSize} \cup (0..image.maxSize) :
          OnModelUpdate(startState) /\ UNCHANGED exceptImage
    \/ \E model \in ImageModels : \E startState \in {NoSize} \cup (0..image.maxSize) :
          ChangeModel(model, startState) /\ UNCHANGED exceptImage
    \/ \E maxSize \in SizeLimits : \E startState \in {NoSize} \cup (0..maxSize) :
          ChangeMaxSize(maxSize, startState) /\ UNCHANGED exceptImage
    \/ \E load \in BagToSet(loads) : LoadResolves(load) /\ UNCHANGED exceptImage
    \/ \E load \in BagToSet(loads) : LoadRejects(load) /\ UNCHANGED exceptImage
    \/ ImgOnLoad /\ UNCHANGED exceptImage

InitImage == ImageInit /\ IdleExceptImage

SpecImage == InitImage /\ [][ImageNext]_vars

\* ------------------------------------------------------------------------
\* Entity registry: addObject, getById, deleteById, the deserialization of a
\* file's geotag and Album.create
\* ------------------------------------------------------------------------

\* The position of the instance with an id among the instances of a type, 0
\* if there is none.
IndexOfId(objects, id) ==
    IF \E k \in 1..Len(objects) : objects[k].id = id
    THEN CHOOSE k \in 1..Len(objects) :
            objects[k].id = id /\ \A j \in 1..(k - 1) : objects[j].id # id
    ELSE 0

\* getById(id): the instance (known by the number it got when made), or NotFound
GetById(reg, type, id) ==
    LET k == IndexOfId(reg.objects[type], id) IN
    IF k = 0 THEN NotFound ELSE reg.objects[type][k].ref

\* A new instance is made and registered.
Register(reg, type, id, data, geotagID) ==
    [reg EXCEPT !.objects[type] = Append(@, [ref |-> reg.made + 1, id |-> id, data |-> data,
                                             geotagID |-> geotagID, modified |-> FALSE]),
                !.made = @ + 1]

\* addObject(record): the instance with the id of the record is updated, or a
\* new one is made
AddObject(reg, type, id, data, geotagID) ==
    LET k == IndexOfId(reg.objects[type], id) IN
    IF k = 0 THEN Register(reg, type, id, data, geotagID)
    ELSE [reg EXCEPT !.objects[type][k].data = data, !.objects[type][k].geotagID = geotagID]

\* A deserialization that makes a GeoTag of its own for the property.
DeserializeGeotagApart(reg, prop) ==
    IF prop = NoGeotag THEN [reg |-> reg, geotagID |-> Null]
    ELSE [reg |-> Register(reg, "geotag", prop.id, prop.data, Null), geotagID |-> prop.id]

\* specialProps.geotag.deserialize(file, prop): the registry after it and the
\* geotagID it gives the file
DeserializeGeotag(reg, prop) ==
    IF prop = NoGeotag THEN [reg |-> reg, geotagID |-> Null]
    ELSE LET added == AddObject(reg, "geotag", prop.id, prop.data, Null)
             k == IndexOfId(added.objects["geotag"], prop.id)
         IN [reg |-> IF prop.locationModified
                     THEN [added EXCEPT !.objects["geotag"][k].modified = TRUE]
                     ELSE added,
             geotagID |-> prop.id]

RegStepOf(op, type, id, data, prop) ==
    [op |-> op, type |-> type, id |-> id, data |-> data,
     before |-> GetById(registry, type, id), geotag |-> prop,
     geotagBefore |-> IF prop = NoGeotag THEN NotFound
                      ELSE GetById(registry, "geotag", prop.id)]

\* Album.addObject(record) or GeoTag.addObject(record) for a record received
\* from the remote store
AddRecord(type, id, data) ==
    /\ registry.ops < MaxRegistryOps
    /\ registry' = [AddObject(registry, type, id, data, Null) EXCEPT !.ops = @ + 1]
    /\ regStep' = RegStepOf("addObject", type, id, data, NoGeotag)

\* FileObject.addObject(record): the geotag of the record is deserialized and
\* the fields are set
AddFileRecord(id, data, prop) ==
    LET geo == DeserializeGeotag(registry, prop) IN
    /\ registry.ops < MaxRegistryOps
    /\ registry' = [AddObject(geo.reg, "file", id, data, geo.geotagID) EXCEPT !.ops = @ + 1]
    /\ regStep' = RegStepOf("addObject", "file", id, data, prop)

\* Album.create: Database.create has resolved with the record of the new
\* album, Album.addObject(data)
AlbumCreateThen(id, data) ==
    /\ registry.ops < MaxRegistryOps
    /\ registry' = [AddObject(registry, "album", id, data, Null) EXCEPT !.ops = @ + 1]
    /\ regStep' = RegStepOf("create", "album", id, data, NoGeotag)

\* deleteById(id)
DeleteById(type, id) ==
    LET k == IndexOfId(registry.objects[type], id)
        objects == registry.objects[type]
    IN
    /\ registry.ops < MaxRegistryOps
    /\ k # 0
    /\ registry' = [registry EXCEPT !.ops = @ + 1,
                       !.objects[type] = SubSeq(objects, 1, k - 1)
                                            \o SubSeq(objects, k + 1, Len(objects))]
    /\ regStep' = RegStepOf("deleteById", type, id, "none", NoGeotag)

RegistryInit == registry = NewRegistry /\ regStep = NoRegStep

RegistryNext ==
    \/ \E type \in {"album", "geotag"} : \E id \in EntityIds : \E data \in FieldValues :
          AddRecord(type, id, data) /\ UNCHANGED exceptRegistry
    \/ \E id \in EntityIds : \E data \in FieldValues : \E prop \in GeotagProps :
          AddFileRecord(id, data, prop) /\ UNCHANGED exceptRegistry
    \/ \E id \in EntityIds : \E data \in FieldValues :
          AlbumCreateThen(id, data) /\ UNCHANGED exceptRegistry
    \/ \E type \in EntityTypes : \E id \in EntityIds :
          DeleteById(type, id) /\ UNCHANGED exceptRegistry

InitRegistry == RegistryInit /\ IdleExceptRegistry

SpecRegistry == InitRegistry /\ [][RegistryNext]_vars

\* ------------------------------------------------------------------------
\* FileObject.meta.specialProps.geotag: serialize and deserialize
\* ------------------------------------------------------------------------

\* The geotag handed to serialize for a file: the registered instance with
\* the file's geotagID, null for a file without geotag
FileGeotag(g) ==
    LET k == IndexOfId(g.reg.objects["geotag"], g.geotagID) IN
    IF g.geotagID = Null \/ k = 0 THEN NoGeotag
    ELSE [id |-> g.reg.objects["geotag"][k].id, data |-> g.reg.objects["geotag"][k].data,
          locationModified |-> g.reg.objects["geotag"][k].modified]

\* A serialization that leaves the id out.
SerializeGeotagWithoutId(prop) ==
    IF prop = NoGeotag THEN NullWire
    ELSE [isNull |-> FALSE, id |-> Null, hasLocation |-> prop.locationModified,
          location |-> IF prop.locationModified THEN prop.data ELSE "none"]

\* specialProps.geotag.serialize(obj, prop): what obj.geotag is set to
SerializeGeotag(prop) ==
    IF prop = NoGeotag THEN NullWire
    ELSE [isNull |-> FALSE, id |-> prop.id, hasLocation |-> prop.locationModified,
          location |-> IF prop.locationModified THEN prop.data ELSE "none"]

\* The serialized geotag as the property of a record received: the fields it
\* does not hold are those of the instance registered under its id.
WireAsProp(reg, wire) ==
    LET k == IndexOfId(reg.objects["geotag"], wire.id) IN
    IF wire.isNull THEN NoGeotag
    ELSE [id |-> wire.id,
          data |-> IF wire.hasLocation THEN wire.location
                   ELSE IF k = 0 THEN "none" ELSE reg.objects["geotag"][k].data,
          locationModified |-> FALSE]

\* A file record arrives from the remote store: its geotag is deserialized
GeoLoadFile(prop) ==
    LET res == DeserializeGeotag(fileGeo.reg, prop) IN
    /\ fileGeo.loads < MaxGeoLoads
    /\ fileGeo' = [fileGeo EXCEPT !.reg = res.reg, !.geotagID = res.geotagID, !.stage = "loaded",
                          !.loads = @ + 1]

\* The geotag of the file is serialized for a save
GeoSerialize ==
    /\ fileGeo.stage = "loaded"
    /\ fileGeo' = [fileGeo EXCEPT !.wire = SerializeGeotag(FileGeotag(fileGeo)), !.before = fileGeo.geotagID,
                          !.stage = "serialized"]

\* The serialized geotag is deserialized into the file
GeoDeserialize ==
    LET res == DeserializeGeotag(fileGeo.reg, WireAsProp(fileGeo.reg, fileGeo.wire)) IN
    /\ fileGeo.stage = "serialized"
    /\ fileGeo' = [fileGeo EXCEPT !.reg = res.reg, !.geotagID = res.geotagID, !.stage = "roundtrip"]

GeoInit == fileGeo = NewGeo

GeoNext ==
    \/ \E prop \in GeotagProps : GeoLoadFile(prop) /\ UNCHANGED exceptGeo
    \/ GeoSerialize /\ UNCHANGED exceptGeo
    \/ GeoDeserialize /\ UNCHANGED exceptGeo

InitGeo == GeoInit /\ IdleExceptGeo

SpecGeo == InitGeo /\ [][GeoNext]_vars

\* ------------------------------------------------------------------------
\* GridView.getData under changing props
\* ------------------------------------------------------------------------

\* getData(props) up to its await: the load it waits for
GetDataCall(props) ==
    [kind |-> IF props.rootId = Null THEN "roots" ELSE "object", props |-> props]

\* new GridView(props): the constructor calls getData(props)
NewGridView(props) ==
    [props |-> props, updateHandler |-> NoHandler, data |-> NoData, changes |-> 0]

\* shouldComponentUpdate(nextProps) with a root, page, page size or search
\* that differs: resetState(), getData(nextProps), return false
ShouldComponentUpdate(nextProps) ==
    /\ gridView.changes < MaxPropChanges
    /\ nextProps # gridView.props
    /\ gridView' = [gridView EXCEPT !.props = nextProps, !.data = NoData, !.changes = @ + 1]
    /\ propLoads' = propLoads (+) SetToBag({GetDataCall(nextProps)})

\* getData, rootId null, resumes after await getAbsoluteRoots(): setState
AbsoluteRootsResolve(load) ==
    /\ BagIn(load, propLoads)
    /\ load.kind = "roots"
    /\ gridView' = [gridView EXCEPT !.data = DataOf(load.props)]
    /\ propLoads' = propLoads (-) SetToBag({load})

\* getData resumes after await loadObject(props.rootId): the handler held is
\* unregistered, one for the props of the call is registered
LoadObjectResolve(load) ==
    /\ BagIn(load, propLoads)
    /\ load.kind = "object"
    /\ gridView' = [gridView EXCEPT !.updateHandler = load.props]
    /\ propLoads' = (propLoads (-) SetToBag({load}))
                        (+) SetToBag({[kind |-> "contents", props |-> load.props]})

\* The contents a handler asked for arrive: its data callback calls setState,
\* unless the handler has been unregistered
ContentsResolve(load) ==
    /\ BagIn(load, propLoads)
    /\ load.kind = "contents"
    /\ gridView' = IF gridView.updateHandler = load.props
                   THEN [gridView EXCEPT !.data = DataOf(load.props)]
                   ELSE gridView
    /\ propLoads' = propLoads (-) SetToBag({load})

PropsInit ==
    \E rootId \in PropRoots, page \in PropPages :
        /\ gridView = NewGridView([rootId |-> rootId, page |-> page])
        /\ propLoads = SetToBag({GetDataCall([rootId |-> rootId, page |-> page])})

PropsNext ==
    \/ \E rootId \in PropRoots, page \in PropPages :
          ShouldComponentUpdate([rootId |-> rootId, page |-> page]) /\ UNCHANGED exceptProps
    \/ \E load \in BagToSet(propLoads) : AbsoluteRootsResolve(load) /\ UNCHANGED exceptProps
    \/ \E load \in BagToSet(propLoads) : LoadObjectResolve(load) /\ UNCHANGED exceptProps
    \/ \E load \in BagToSet(propLoads) : ContentsResolve(load) /\ UNCHANGED exceptProps

InitProps == PropsInit /\ IdleExceptProps

SpecProps == InitProps /\ [][PropsNext]_vars

\* ------------------------------------------------------------------------
\* The album hierarchy: Album.create, Album.delete, Album.addFile,
\* Album.addFiles, Album.updateParents and Album.changeParent, every call of
\* them on every registered album and with every target
\* ------------------------------------------------------------------------

\* The albums the loop of updateParents visits from an album on: it goes on
\* to current.parent until that is null, and ends with the exception of
\* Album.getById when the parent is not registered.
RECURSIVE WalkFrom(_, _, _)
WalkFrom(tr, current, fuel) ==
    IF fuel = 0 THEN <<>>
    ELSE IF tr.parentID[current] = Null \/ tr.parentID[current] \notin tr.registered
    THEN <<current>>
    ELSE <<current>> \o WalkFrom(tr, tr.parentID[current], fuel - 1)

\* An updateParents that visits the album only.
TreeUpdateParentsSelfOnly(tr, a) ==
    [tree |-> [tr EXCEPT !.cached = @ \ {a}],
     walk |-> [start |-> a, visited |-> <<a>>, requests |-> <<<<a>>>>, outcome |-> "done"]]

\* updateParents() on album a: the tree after it and what the loop did
TreeUpdateParents(tr, a) ==
    LET visited == WalkFrom(tr, a, MaxWalk)
        last == visited[Len(visited)]
        outcome == IF Len(visited) = MaxWalk THEN "hung"
                   ELSE IF tr.parentID[last] # Null THEN "NotFound"
                   ELSE "done"
    IN [tree |-> [tr EXCEPT !.cached = @ \ {visited[k] : k \in 1..Len(visited)},
                            !.hung = (outcome = "hung")],
        walk |-> [start |-> a, visited |-> visited,
                  requests |-> IF outcome = "done" THEN <<visited>> ELSE <<>>,
                  outcome |-> outcome]]

\* How a call that ran updateParents last ends.
OutcomeOf(walk) ==
    IF walk.outcome = "done" THEN "resolved"
    ELSE IF walk.outcome = "hung" THEN "hung" ELSE "rejected"

ReasonOf(walk) == IF walk.outcome = "NotFound" THEN "NotFound" ELSE "none"

NewTask(op, a) ==
    [op |-> op, album |-> a, multiple |-> FALSE, files |-> <<>>, i |-> 0, newParent |-> Null,
     oldParent |-> Null, resp |-> "none", log |-> <<>>]

\* What an operation that ends did.
Ended(task, outcome, reason, log, walks) ==
    [op |-> task.op, album |-> task.album, multiple |-> task.multiple, files |-> task.files,
     newParent |-> task.newParent, oldParent |-> task.oldParent, resp |-> task.resp,
     outcome |-> outcome, reason |-> reason, log |-> log, walks |-> walks,
     before |-> albumTree]

Called == [albumTree EXCEPT !.calls = @ + 1]

\* Album.create(parentId, name): Database.create is called
TreeCreate(parentId) ==
    /\ ~albumTree.hung
    /\ albumTree.calls < MaxTreeCalls
    /\ albumTree.remote # AlbumIds
    /\ \A t \in BagToSet(treeTasks) : t.op # "Album.create"
    /\ albumTree' = Called
    /\ treeTasks' = treeTasks (+) SetToBag({[NewTask("Album.create", Null)
                                               EXCEPT !.newParent = parentId]})
    /\ treeStep' = NoTreeStep

\* album.delete(): Database.delete is called
TreeDelete(a) ==
    /\ ~albumTree.hung
    /\ albumTree.calls < MaxTreeCalls
    /\ albumTree' = Called
    /\ treeTasks' = treeTasks (+) SetToBag({NewTask("Album.delete", a)})
    /\ treeStep' = NoTreeStep

\* album.addFile(fileId, multiple): Database.create is awaited
TreeAddFile(a, fileId, multiple) ==
    /\ ~albumTree.hung
    /\ albumTree.calls < MaxTreeCalls
    /\ albumTree' = Called
    /\ treeTasks' = treeTasks (+) SetToBag({[NewTask("Album.addFile", a)
                                               EXCEPT !.files = <<fileId>>, !.i = 1,
                                                      !.multiple = multiple,
                                                      !.log = <<Event("create", fileId)>>]})
    /\ treeStep' = NoTreeStep

\* album.addFiles(files): promiseChain calls addFile(files[0], true); for an
\* empty list it is a resolved promise
TreeAddFiles(a, files) ==
    /\ ~albumTree.hung
    /\ albumTree.calls < MaxTreeCalls
    /\ albumTree' = Called
    /\ treeTasks' = treeTasks (+) SetToBag({
          IF files = <<>>
          THEN [NewTask("Album.addFiles", a) EXCEPT !.resp = "ok"]
          ELSE [NewTask("Album.addFiles", a)
                  EXCEPT !.files = files, !.i = 1, !.log = <<Event("create", files[1])>>]})
    /\ treeStep' = NoTreeStep

\* album.changeParent(newParentId): oldParent = this.parent, which throws
\* when the parent is not registered; updateSave is awaited
TreeChangeParent(a, newParentId) ==
    LET task == [NewTask("Album.changeParent", a)
                   EXCEPT !.newParent = newParentId, !.oldParent = albumTree.parentID[a]]
    IN
    /\ ~albumTree.hung
    /\ albumTree.calls < MaxTreeCalls
    /\ albumTree' = Called
    /\ IF task.oldParent # Null /\ task.oldParent \notin albumTree.registered
       THEN /\ treeStep' = Ended(task, "rejected", "NotFound", <<>>, <<>>)
            /\ UNCHANGED treeTasks
       ELSE /\ treeTasks' = treeTasks (+) SetToBag({task})
            /\ treeStep' = NoTreeStep

\* The remote store answers the request of a task: it accepts it, giving a
\* created album the least id not yet given, or rejects it with an error.
TreeRemote(task, answer) ==
    LET id == CHOOSE x \in AlbumIds \ albumTree.remote :
                 \A y \in AlbumIds \ albumTree.remote : x <= y
    IN
    /\ ~albumTree.hung
    /\ BagIn(task, treeTasks)
    /\ task.resp = "none"
    /\ IF task.op = "Album.create" /\ answer = "ok"
       THEN /\ albumTree.remote # AlbumIds
            /\ albumTree' = [albumTree EXCEPT !.remote = @ \cup {id}]
            /\ treeTasks' = (treeTasks (-) SetToBag({task}))
                               (+) SetToBag({[task EXCEPT !.resp = answer, !.album = id]})
       ELSE /\ treeTasks' = (treeTasks (-) SetToBag({task}))
                               (+) SetToBag({[task EXCEPT !.resp = answer]})
            /\ UNCHANGED albumTree
    /\ treeStep' = NoTreeStep

\* Album.create, .then: Album.addObject(data), resolve(album); .catch(reject)
TreeCreateThen(task) ==
    /\ ~albumTree.hung
    /\ BagIn(task, treeTasks)
    /\ task.op = "Album.create"
    /\ task.resp # "none"
    /\ treeTasks' = treeTasks (-) SetToBag({task})
    /\ IF task.resp = "ok"
       THEN /\ albumTree' = [albumTree EXCEPT !.registered = @ \cup {task.album},
                                              !.parentID[task.album] = task.newParent]
            /\ treeStep' = Ended(task, "resolved", "none",
                                 <<Event("created", task.album)>>, <<>>)
       ELSE /\ UNCHANGED albumTree
            /\ treeStep' = Ended(task, "rejected", task.resp, <<>>, <<>>)

\* A delete that removes the album also when the remote store rejected.
DeleteCatchRemoves(tr, task) == [tr EXCEPT !.registered = @ \ {task.album}]

\* album.delete, .catch(reject): the registry is left as it is
DeleteCatch(tr, task) == tr

\* album.delete, .then: Album.deleteById(this.id), resolve(); .catch(reject)
TreeDeleteThen(task) ==
    /\ ~albumTree.hung
    /\ BagIn(task, treeTasks)
    /\ task.op = "Album.delete"
    /\ task.resp # "none"
    /\ treeTasks' = treeTasks (-) SetToBag({task})
    /\ IF task.resp = "ok"
       THEN /\ albumTree' = [albumTree EXCEPT !.registered = @ \ {task.album},
                                              !.cached = @ \ {task.album}]
            /\ treeStep' = Ended(task, "resolved", "none",
                                 IF task.album \in albumTree.registered
                                 THEN <<Event("deleted", task.album)>> ELSE <<>>, <<>>)
       ELSE /\ albumTree' = DeleteCatch(albumTree, task)
            /\ treeStep' = Ended(task, "rejected", task.resp, <<>>, <<>>)

\* An addFile that reloads the album whatever multiple is.
CallsUpdateParentsAlways(multiple) == TRUE

\* addFile: if (!multiple) this.updateParents()
CallsUpdateParents(multiple) == ~multiple

\* addFile resumes after its await: a rejection is rethrown; otherwise
\* updateParents is called unless multiple is set
TreeAddFileResume(task) ==
    LET up == TreeUpdateParents(albumTree, task.album)
        log == task.log \o <<Event("resolved", task.files[1])>>
    IN
    /\ ~albumTree.hung
    /\ BagIn(task, treeTasks)
    /\ task.op = "Album.addFile"
    /\ task.resp # "none"
    /\ treeTasks' = treeTasks (-) SetToBag({task})
    /\ IF task.resp # "ok"
       THEN /\ UNCHANGED albumTree
            /\ treeStep' = Ended(task, "rejected", task.resp, task.log, <<>>)
       ELSE IF ~CallsUpdateParents(task.multiple)
       THEN /\ UNCHANGED albumTree
            /\ treeStep' = Ended(task, "resolved", "none", log, <<>>)
       ELSE /\ albumTree' = up.tree
            /\ treeStep' = Ended(task, OutcomeOf(up.walk), ReasonOf(up.walk),
                                 log \o <<Event("updateParents", task.album)>>, <<up.walk>>)

\* addFile(fileId, true) of addFiles resumes and settles its promise: on a
\* rejection promiseChain rejects and addFiles rethrows; otherwise promiseChain
\* calls addFile for the next file or, after the last, resolves and
\* updateParents is called
TreeAddFilesResume(task) ==
    LET up == TreeUpdateParents(albumTree, task.album)
        log == IF task.i = 0 THEN task.log
               ELSE task.log \o <<Event("resolved", task.files[task.i])>>
    IN
    /\ ~albumTree.hung
    /\ BagIn(task, treeTasks)
    /\ task.op = "Album.addFiles"
    /\ task.resp # "none"
    /\ IF task.resp # "ok"
       THEN /\ treeTasks' = treeTasks (-) SetToBag({task})
            /\ UNCHANGED albumTree
            /\ treeStep' = Ended(task, "rejected", task.resp, task.log, <<>>)
       ELSE IF task.i < Len(task.files)
       THEN /\ treeTasks' = (treeTasks (-) SetToBag({task})) (+) SetToBag({
                   [task EXCEPT !.i = @ + 1, !.resp = "none",
                                !.log = log \o <<Event("create", task.files[task.i + 1])>>]})
            /\ UNCHANGED albumTree
            /\ treeStep' = NoTreeStep
       ELSE /\ treeTasks' = treeTasks (-) SetToBag({task})
            /\ albumTree' = up.tree
            /\ treeStep' = Ended(task, OutcomeOf(up.walk), ReasonOf(up.walk),
                                 log \o <<Event("updateParents", task.album)>>, <<up.walk>>)

\* changeParent resumes after updateSave, which has set the new parentID:
\* oldParent.updateParents(), this.parent.updateParents() and
\* listUpdateHandlers.handle(). A parent that is null ends it with a
\* TypeError, a new parent that is not registered with the exception of
\* Album.getById.
TreeChangeParentResume(task) ==
    LET moved == [albumTree EXCEPT !.parentID[task.album] = task.newParent]
        old == TreeUpdateParents(moved, IF task.oldParent = Null THEN task.album
                                        ELSE task.oldParent)
        new == TreeUpdateParents(old.tree, IF task.newParent = Null THEN task.album
                                           ELSE task.newParent)
        oldCall == <<Event("updateParents", task.oldParent)>>
        newCall == <<Event("updateParents", task.newParent)>>
    IN
    /\ ~albumTree.hung
    /\ BagIn(task, treeTasks)
    /\ task.op = "Album.changeParent"
    /\ task.resp # "none"
    /\ treeTasks' = treeTasks (-) SetToBag({task})
    /\ IF task.resp # "ok"
       THEN /\ UNCHANGED albumTree
            /\ treeStep' = Ended(task, "rejected", task.resp, <<>>, <<>>)
       ELSE IF task.oldParent = Null
       THEN /\ albumTree' = moved
            /\ treeStep' = Ended(task, "rejected", "TypeError", <<>>, <<>>)
       ELSE IF old.walk.outcome # "done"
       THEN /\ albumTree' = old.tree
            /\ treeStep' = Ended(task, OutcomeOf(old.walk), ReasonOf(old.walk), oldCall,
                                 <<old.walk>>)
       ELSE IF task.newParent = Null
       THEN /\ albumTree' = old.tree
            /\ treeStep' = Ended(task, "rejected", "TypeError", oldCall, <<old.walk>>)
       ELSE IF task.newParent \notin albumTree.registered
       THEN /\ albumTree' = old.tree
            /\ treeStep' = Ended(task, "rejected", "NotFound", oldCall, <<old.walk>>)
       ELSE IF new.walk.outcome # "done"
       THEN /\ albumTree' = new.tree
            /\ treeStep' = Ended(task, OutcomeOf(new.walk), ReasonOf(new.walk),
                                 oldCall \o newCall, <<old.walk, new.walk>>)
       ELSE /\ albumTree' = new.tree
            /\ treeStep' = Ended(task, "resolved", "none",
                                 oldCall \o newCall \o <<Event("handle", 0)>>,
                                 <<old.walk, new.walk>>)

\* The value undefined, which no parent getter gives.
UndefinedAlbum == -1

\* album.parent: null for parentID null, the registered album otherwise;
\* Album.getById fails for an id that is not registered
AlbumParent(tr, a) ==
    IF tr.parentID[a] = Null THEN [threw |-> FALSE, album |-> Null]
    ELSE IF tr.parentID[a] \in tr.registered THEN [threw |-> FALSE, album |-> tr.parentID[a]]
    ELSE [threw |-> TRUE, album |-> Null]

\* Album.rootAlbums: objects.filter(album => album.parent === undefined)
RootAlbums(tr) ==
    [threw |-> \E a \in tr.registered : AlbumParent(tr, a).threw,
     albums |-> {a \in tr.registered : AlbumParent(tr, a).album = UndefinedAlbum}]

\* album.children:
\* objects.filter(album => album.parent !== null && album.parent.id == this.id)
Children(tr, a) ==
    [threw |-> \E b \in tr.registered : AlbumParent(tr, b).threw,
     albums |-> {b \in tr.registered :
                    AlbumParent(tr, b).album # Null /\ AlbumParent(tr, b).album = a}]

TreeInit == albumTree = NewAlbumTree /\ treeTasks = EmptyBag /\ treeStep = NoTreeStep

TreeNext ==
    \/ \E parentId \in albumTree.registered \cup {Null} :
          TreeCreate(parentId) /\ UNCHANGED exceptTree
    \/ \E a \in albumTree.registered : TreeDelete(a) /\ UNCHANGED exceptTree
    \/ \E a \in albumTree.registered : \E multiple \in BOOLEAN :
          TreeAddFile(a, 7, multiple) /\ UNCHANGED exceptTree
    \/ \E a \in albumTree.registered : \E files \in TreeFileLists :
          TreeAddFiles(a, files) /\ UNCHANGED exceptTree
    \/ \E a \in albumTree.registered : \E newParentId \in albumTree.registered \cup {Null} :
          TreeChangeParent(a, newParentId) /\ UNCHANGED exceptTree
    \/ \E task \in BagToSet(treeTasks) : \E answer \in {"ok"} \cup RemoteErrors :
          TreeRemote(task, answer) /\ UNCHANGED exceptTree
    \/ \E task \in BagToSet(treeTasks) : TreeCreateThen(task) /\ UNCHANGED exceptTree
    \/ \E task \in BagToSet(treeTasks) : TreeDeleteThen(task) /\ UNCHANGED exceptTree
    \/ \E task \in BagToSet(treeTasks) : TreeAddFileResume(task) /\ UNCHANGED exceptTree
    \/ \E task \in BagToSet(treeTasks) : TreeAddFilesResume(task) /\ UNCHANGED exceptTree
    \/ \E task \in BagToSet(treeTasks) : TreeChangeParentResume(task) /\ UNCHANGED exceptTree

InitTree == TreeInit /\ IdleExceptTree

SpecTree == InitTree /\ [][TreeNext]_vars

\* ------------------------------------------------------------------------
\* ImageLoader with a fixed model and fixed props: the loads from the
\* registration of the handler on, no model update and no change of props
\* in between
\* ------------------------------------------------------------------------

\* The component with the sizes asked for in a step added to those asked for.
Asked(s, before) ==
    LET new == {n \in BagToSet(s.l) : CopiesIn(n, s.l) > CopiesIn(n, before)} IN
    IF new = {} THEN s.c
    ELSE [s.c EXCEPT !.requested = Append(@, (CHOOSE n \in new : TRUE).size)]

\* The size loadFirst asks getBestImgSize for:
\* props.maxFirstSize === 0 ? 0 : props.maxFirstSize || props.maxSize
FirstSizeLimit(maxFirstSize, maxSize) ==
    IF maxFirstSize = 0 THEN 0 ELSE IF maxFirstSize = NoSize THEN maxSize ELSE maxFirstSize

\* new ImageLoader(props): the constructor registers onModelUpdate, which runs
\* at once: loadFirst(props), startState being what getBestImgSize gave
NewFixedLoader(maxSize, minSize, maxFirstSize, startState) ==
    LoadFirstFrom([c |-> [model |-> "A", maxSize |-> maxSize, minSize |-> minSize,
                          maxFirstSize |-> maxFirstSize, loadState |-> NoSize,
                          imageData |-> NoImageData, isLoading |-> FALSE, requested |-> <<>>],
                   l |-> EmptyBag],
                  startState, "A", maxSize, minSize)

\* loadImgData resolves: the .then of loadImg runs
FixedLoadResolves(load) ==
    LET oldState == fixedImage.loadState
        rest == fixedLoads (-) SetToBag({load})
        set == [c |-> [fixedImage EXCEPT !.imageData = load, !.loadState = load.size,
                                         !.isLoading = FALSE],
                l |-> rest]
        s == IF oldState # NoSize
             THEN LoadNextFrom(set, fixedImage.model, fixedImage.maxSize, fixedImage.minSize)
             ELSE set
    IN
    /\ BagIn(load, fixedLoads)
    /\ fixedImage' = Asked(s, rest)
    /\ fixedLoads' = s.l

\* loadImgData rejects: the .catch of loadImg runs
FixedLoadRejects(load) ==
    LET rest == fixedLoads (-) SetToBag({load})
        set == [c |-> [fixedImage EXCEPT !.loadState = load.size, !.isLoading = FALSE],
                l |-> rest]
        s == LoadNextFrom(set, fixedImage.model, fixedImage.maxSize, fixedImage.minSize)
    IN
    /\ BagIn(load, fixedLoads)
    /\ fixedImage' = Asked(s, rest)
    /\ fixedLoads' = s.l

\* img.onLoad: the image is displayed, loadNext()
FixedImgOnLoad ==
    LET s == LoadNextFrom([c |-> fixedImage, l |-> fixedLoads], fixedImage.model,
                          fixedImage.maxSize, fixedImage.minSize)
    IN
    /\ fixedImage.imageData # NoImageData
    /\ s.l # fixedLoads
    /\ fixedImage' = Asked(s, fixedLoads)
    /\ fixedLoads' = s.l

SizesInit ==
    \E maxSize \in ImgSizes, minSize \in ImgSizes, maxFirstSize \in {NoSize} \cup ImgSizes :
    \E startState \in {NoSize} \cup (0..FirstSizeLimit(maxFirstSize, maxSize)) :
        LET s == NewFixedLoader(maxSize, minSize, maxFirstSize, startState) IN
        /\ fixedImage = Asked(s, EmptyBag)
        /\ fixedLoads = s.l

SizesNext ==
    \/ \E load \in BagToSet(fixedLoads) : FixedLoadResolves(load) /\ UNCHANGED exceptSizes
    \/ \E load \in BagToSet(fixedLoads) : FixedLoadRejects(load) /\ UNCHANGED exceptSizes
    \/ FixedImgOnLoad /\ UNCHANGED exceptSizes

InitSizes == SizesInit /\ IdleExceptSizes

SpecSizes == InitSizes /\ [][SizesNext]_vars

\* ------------------------------------------------------------------------
\* AddressBar: compareProps, getAddress, fetchAddress, shouldComponentUpdate
\* ------------------------------------------------------------------------

\* AddressBar.compareProps(props1, props2)
CompareProps(props1, props2) ==
    props1.rootType = props2.rootType /\ props1.rootId = props2.rootId

\* What getAddress(props) resolves with: "/" without root object, the path
\* of the folder for folders, undefined for a type the switch has no case for
GetAddress(props) ==
    IF props.rootId = Null THEN "/"
    ELSE IF props.rootType = "folders"
    THEN IF props.rootId = 1 THEN "one" ELSE "one/two"
    ELSE "undefined"

\* fetchAddress(props) up to the return of getAddress: the call awaits
\* Folder.loadObject for a folder and is a resolved promise otherwise
FetchAddress(props) ==
    [props |-> props,
     awaits |-> (props.rootId # Null /\ props.rootType = "folders")]

\* new AddressBar(props): the constructor calls fetchAddress(props)
NewAddressBar(props) ==
    [props |-> props, address |-> "/", changes |-> 0, failed |-> FALSE,
     arrival |-> NoAddressArrival]

\* shouldComponentUpdate(nextProps) with props that differ:
\* fetchAddress(nextProps), return false
AddressShouldComponentUpdate(nextProps) ==
    /\ addressBar.changes < MaxAddressChanges
    /\ ~CompareProps(addressBar.props, nextProps)
    /\ addressBar' = [addressBar EXCEPT !.props = nextProps, !.changes = @ + 1,
                                        !.failed = FALSE, !.arrival = NoAddressArrival]
    /\ addressLoads' = addressLoads (+) SetToBag({FetchAddress(nextProps)})

\* A callback that sets the address whatever the props of the component are.
FetchAddressThenUnchecked(bar, load) ==
    [bar EXCEPT !.address = GetAddress(load.props),
                !.arrival = [result |-> "resolved", rootType |-> load.props.rootType,
                             rootId |-> load.props.rootId, set |-> TRUE]]

\* The .then of fetchAddress: setState({ address }) if compareProps(props, this.props)
FetchAddressThen(bar, load) ==
    LET set == CompareProps(load.props, bar.props) IN
    [bar EXCEPT !.address = IF set THEN GetAddress(load.props) ELSE @,
                !.arrival = [result |-> "resolved", rootType |-> load.props.rootType,
                             rootId |-> load.props.rootId, set |-> set]]

\* getAddress resolves: the .then of fetchAddress runs
AddressResolves(load) ==
    /\ BagIn(load, addressLoads)
    /\ addressLoads' = addressLoads (-) SetToBag({load})
    /\ addressBar' = FetchAddressThen(addressBar, load)

\* Folder.loadObject rejects: getAddress rejects and no handler runs
AddressRejects(load) ==
    /\ BagIn(load, addressLoads)
    /\ load.awaits
    /\ addressLoads' = addressLoads (-) SetToBag({load})
    /\ addressBar' = [addressBar EXCEPT
                         !.failed = @ \/ CompareProps(load.props, addressBar.props),
                         !.arrival = [result |-> "rejected", rootType |-> load.props.rootType,
                                      rootId |-> load.props.rootId, set |-> FALSE]]

AddressInit ==
    \E props \in AddressProps :
        /\ addressBar = NewAddressBar(props)
        /\ addressLoads = SetToBag({FetchAddress(props)})

AddressNext ==
    \/ \E nextProps \in AddressProps :
          AddressShouldComponentUpdate(nextProps) /\ UNCHANGED exceptAddress
    \/ \E load \in BagToSet(addressLoads) : AddressResolves(load) /\ UNCHANGED exceptAddress
    \/ \E load \in BagToSet(addressLoads) : AddressRejects(load) /\ UNCHANGED exceptAddress

InitAddress == AddressInit /\ IdleExceptAddress

SpecAddress == InitAddress /\ [][AddressNext]_vars

\* ------------------------------------------------------------------------
\* SelectionManager: select, selectAll, getOpenItem, getAdjacentItemId
\* ------------------------------------------------------------------------

\* list.indexOf(x): the index from 0 on, -1 when x is not in the items
IndexOf(items, x) ==
    IF \E k \in 1..Len(items) : items[k] = x
    THEN (CHOOSE k \in 1..Len(items) : items[k] = x /\ \A j \in 1..(k - 1) : items[j] # x) - 1
    ELSE -1

\* list[i], the index from 0 on
At(items, i) == IF i >= 0 /\ i < Len(items) THEN items[i + 1] ELSE UndefinedId

Includes(items, x) == \E k \in 1..Len(items) : items[k] = x

Differs(a, b) == a # b

\* select, case Extend: objectList[i] for i from the smaller to the larger
\* of the two indexes
ExtendSelection(objectList, lastSelected, modelId) ==
    LET first == IndexOf(objectList, lastSelected)
        second == IndexOf(objectList, modelId)
        lo == IF first < second THEN first ELSE second
        hi == IF first < second THEN second ELSE first
    IN [k \in 1..(hi - lo + 1) |-> At(objectList, lo + k - 1)]

\* A toggle that adds the id whether it is selected or not.
ToggleSelectionAdding(selection, modelId) == Append(selection, modelId)

\* select, case Toggle
ToggleSelection(selection, modelId) ==
    IF Includes(selection, modelId)
    THEN SelectSeq(selection, LAMBDA id : Differs(id, modelId))
    ELSE Append(selection, modelId)

\* select(modelId, mode): the new selection
NewSelection(v, modelId, mode) ==
    IF mode = Replace THEN <<modelId>>
    ELSE IF mode = Toggle THEN ToggleSelection(v.selection, modelId)
    ELSE ExtendSelection(v.objectList, v.lastSelected, modelId)

\* The type of a file and the file of a face.
FileType(id) == IF id = 2 THEN "video" ELSE "image"
FaceFile(id) == IF id = 3 THEN 20 ELSE 10

\* openModelConfigs[type].filter(currentId, newId)
OpenFilter(type, currentId, newId) ==
    IF type = "file" THEN FileType(newId) = "image"
    ELSE newId = currentId \/ FaceFile(newId) # FaceFile(currentId)

\* getOpenItem(): the first type whose query parameter is the id of a
\* registered object, null when there is none
GetOpenItem(query) ==
    IF query.file \in ModelIds THEN [isNull |-> FALSE, type |-> "file", id |-> query.file]
    ELSE IF query.face \in ModelIds THEN [isNull |-> FALSE, type |-> "face", id |-> query.face]
    ELSE [isNull |-> TRUE, type |-> "none", id |-> Null]

\* The loop of getAdjacentItemId from an index on.
RECURSIVE AdjacentFrom(_, _, _, _, _)
AdjacentFrom(objectList, type, currentId, index, direction) ==
    LET newIndex == index + direction IN
    IF newIndex < 0 \/ newIndex >= Len(objectList) THEN [kind |-> "null", value |-> Null]
    ELSE IF OpenFilter(type, currentId, At(objectList, newIndex))
    THEN [kind |-> "value", value |-> At(objectList, newIndex)]
    ELSE AdjacentFrom(objectList, type, currentId, newIndex, direction)

\* getAdjacentItemId(direction): destructuring the null of getOpenItem is a
\* TypeError
GetAdjacentItemId(v, direction) ==
    LET open == GetOpenItem(v.query) IN
    IF open.isNull THEN [kind |-> "TypeError", value |-> Null]
    ELSE IF ~Includes(v.objectList, open.id) THEN [kind |-> "null", value |-> Null]
    ELSE AdjacentFrom(v.objectList, open.type, open.id, IndexOf(v.objectList, open.id),
                      direction)

\* A view just built: nothing selected, no item open.
NewSelView(objectList) ==
    [objectList |-> objectList, selection |-> <<>>, lastSelected |-> UndefinedId,
     query |-> [file |-> Null, face |-> Null], ops |-> 0, last |-> NoSelCall]

\* select(modelId, mode), called for an object of the list
Select(modelId, mode) ==
    /\ selView.ops < MaxSelectOps
    /\ Includes(selView.objectList, modelId)
    /\ selView' = [selView EXCEPT
                      !.selection = NewSelection(selView, modelId, mode),
                      !.lastSelected = modelId,
                      !.ops = @ + 1,
                      !.last = [NoSelCall EXCEPT !.call = "select", !.mode = mode,
                                                 !.id = modelId,
                                                 !.last = selView.lastSelected,
                                                 !.before = selView.selection]]

\* selectAll(value)
SelectAll(value) ==
    /\ selView.ops < MaxSelectOps
    /\ selView' = [selView EXCEPT
                      !.selection = IF value THEN selView.objectList ELSE <<>>,
                      !.ops = @ + 1,
                      !.last = [NoSelCall EXCEPT !.call = "selectAll"]]

\* The view's data change: the object list is another one
ObjectListChange(objectList) ==
    /\ selView.ops < MaxSelectOps
    /\ objectList # selView.objectList
    /\ selView' = [selView EXCEPT !.objectList = objectList, !.ops = @ + 1,
                                  !.last = NoSelCall]

\* The query of the location changes: an item is opened or closed
QueryChange(file, face) ==
    /\ selView.ops < MaxSelectOps
    /\ [file |-> file, face |-> face] # selView.query
    /\ selView' = [selView EXCEPT !.query = [file |-> file, face |-> face], !.ops = @ + 1,
                                  !.last = NoSelCall]

\* getAdjacentItemId(direction) is called
AdjacentItem(direction) ==
    /\ selView.ops < MaxSelectOps
    /\ selView' = [selView EXCEPT
                      !.ops = @ + 1,
                      !.last = [NoSelCall EXCEPT
                                   !.call = "getAdjacentItemId", !.direction = direction,
                                   !.kind = GetAdjacentItemId(selView, direction).kind,
                                   !.value = GetAdjacentItemId(selView, direction).value]]

SelectionInit == \E objectList \in UniqueLists : selView = NewSelView(objectList)

SelectionNext ==
    \/ \E modelId \in ModelIds : \E mode \in {Replace, Toggle, Extend} :
          Select(modelId, mode) /\ UNCHANGED exceptSelection
    \/ \E value \in BOOLEAN : SelectAll(value) /\ UNCHANGED exceptSelection
    \/ \E objectList \in UniqueLists : ObjectListChange(objectList) /\ UNCHANGED exceptSelection
    \/ \E file \in ModelIds \cup {Null} : \E face \in ModelIds \cup {Null} :
          QueryChange(file, face) /\ UNCHANGED exceptSelection
    \/ \E direction \in {-1, 1} : AdjacentItem(direction) /\ UNCHANGED exceptSelection

InitSelection == SelectionInit /\ IdleExceptSelection

SpecSelection == InitSelection /\ [][SelectionNext]_vars

\* ------------------------------------------------------------------------
\* FileObject.geotag, GeoTag.area and FileObject.geotagAreaName
\* ------------------------------------------------------------------------

\* GeoTag.getById(id): the registered geotag, NotFound for any other id,
\* null included
GeoTagGetById(id) ==
    IF id \in TagIds THEN [threw |-> FALSE, tag |-> id] ELSE [threw |-> TRUE, tag |-> Null]

\* file.geotag
GeotagOf(f) == GeoTagGetById(f.geotagID)

\* geotag.area: null for areaID null, the registered area otherwise
AreaOf(f, tag) == f.areaID[tag]

\* file.geotagAreaName
GeotagAreaName(f) ==
    IF GeotagOf(f).threw THEN [read |-> TRUE, kind |-> "NotFound", name |-> "none"]
    ELSE IF GeotagOf(f).tag = Null THEN [read |-> TRUE, kind |-> "value", name |-> "None"]
    ELSE IF AreaOf(f, GeotagOf(f).tag) = Null
    THEN [read |-> TRUE, kind |-> "value", name |-> "None"]
    ELSE [read |-> TRUE, kind |-> "value", name |-> NameOfArea(AreaOf(f, GeotagOf(f).tag))]

\* A file whose record had the geotag given (null for none), the geotags
\* registered with their areas.
NewNamedFile(geotagID, areaID) ==
    [geotagID |-> geotagID, areaID |-> areaID, changes |-> 0, last |-> NoAreaRead]

\* A record of the file arrives: deserialize sets geotagID
SetGeotagID(geotagID) ==
    /\ namedFile.changes < MaxAreaChanges
    /\ geotagID # namedFile.geotagID
    /\ namedFile' = [namedFile EXCEPT !.geotagID = geotagID, !.changes = @ + 1,
                                      !.last = NoAreaRead]

\* A record of a geotag arrives: its areaID is set
SetAreaID(tag, areaId) ==
    /\ namedFile.changes < MaxAreaChanges
    /\ areaId # namedFile.areaID[tag]
    /\ namedFile' = [namedFile EXCEPT !.areaID[tag] = areaId, !.changes = @ + 1,
                                      !.last = NoAreaRead]

\* file.geotagAreaName is read
ReadAreaName ==
    /\ namedFile.changes < MaxAreaChanges
    /\ namedFile' = [namedFile EXCEPT !.changes = @ + 1, !.last = GeotagAreaName(namedFile)]

AreaInit ==
    \E geotagID \in TagIds \cup {Null} : \E areaID \in [TagIds -> AreaIds \cup {Null}] :
        namedFile = NewNamedFile(geotagID, areaID)

AreaNext ==
    \/ \E geotagID \in TagIds \cup {Null} : SetGeotagID(geotagID) /\ UNCHANGED exceptArea
    \/ \E tag \in TagIds : \E areaId \in AreaIds \cup {Null} :
          SetAreaID(tag, areaId) /\ UNCHANGED exceptArea
    \/ ReadAreaName /\ UNCHANGED exceptArea

InitArea == AreaInit /\ IdleExceptArea

SpecArea == InitArea /\ [][AreaNext]_vars

\* ------------------------------------------------------------------------
\* Input: keydown, keyup, clearKeysDown, isDown
\* ------------------------------------------------------------------------

\* isDown(key)
IsDown(inp, key) == IF inp.keysDown[key] = "absent" THEN FALSE ELSE inp.keysDown[key] = "true"

\* Input as the module defines it: keysDown: {}
NewInput ==
    [keysDown |-> [name \in KeyNames |-> "absent"], held |-> {}, events |-> 0]

\* keyup: the property of keysDown it sets to false
KeyupName(key) == key

\* keydown(event)
Keydown(key, write) ==
    /\ input.events < MaxKeyEvents
    /\ key # " " => write = "written"
    /\ input' = [input EXCEPT
                    !.keysDown = IF key = " " /\ write = "TypeError" THEN @
                                 ELSE IF key = " " /\ write = "written"
                                 THEN [@ EXCEPT !["Space"] = "true"]
                                 ELSE [@ EXCEPT ![key] = "true"],
                    !.held = @ \cup {key},
                    !.events = @ + 1]

\* keyup(event)
Keyup(key) ==
    /\ input.events < MaxKeyEvents
    /\ input' = [input EXCEPT !.keysDown[KeyupName(key)] = "false",
                              !.held = @ \ {key},
                              !.events = @ + 1]

\* clearKeysDown()
ClearKeysDown ==
    /\ input.events < MaxKeyEvents
    /\ input' = [input EXCEPT
                    !.keysDown = [name \in KeyNames |->
                                     IF @[name] = "absent" THEN "absent" ELSE "false"],
                    !.held = {},
                    !.events = @ + 1]

InputInit == input = NewInput

InputNext ==
    \/ \E key \in EventKeys : \E write \in KeyWrites :
          Keydown(key, write) /\ UNCHANGED exceptInput
    \/ \E key \in EventKeys : Keyup(key) /\ UNCHANGED exceptInput
    \/ ClearKeysDown /\ UNCHANGED exceptInput

InitInput == InputInit /\ IdleExceptInput

SpecInput == InitInput /\ [][InputNext]_vars

\* ------------------------------------------------------------------------
\* SimpleDialog: the primary button and the promise of the action
\* ------------------------------------------------------------------------

\* state = { loading: false }, the dialog open and mounted
NewSimpleDialog ==
    [loading |-> FALSE, open |-> TRUE, mounted |-> TRUE, pending |-> 0, started |-> 0,
     events |-> 0, last |-> "none"]

\* The primary button takes a click: disabled={this.state.loading}
PrimaryEnabled(d) == ~d.loading

\* onClick of the primary button: setState({ loading: true }), then
\* this.props.action() is called
ClickPrimary ==
    /\ simpleDialog.events < MaxDialogEvents
    /\ simpleDialog.mounted /\ simpleDialog.open
    /\ PrimaryEnabled(simpleDialog)
    /\ simpleDialog' = [simpleDialog EXCEPT !.loading = TRUE, !.pending = @ + 1,
                                            !.started = @ + 1, !.events = @ + 1,
                                            !.last = "click"]

\* The promise of the action resolves: onClose(), setStateSafe({ loading:
\* false }), which sets the state of a mounted component only
ActionResolves ==
    /\ simpleDialog.pending > 0
    /\ simpleDialog' = [simpleDialog EXCEPT
                           !.open = FALSE,
                           !.loading = IF simpleDialog.mounted THEN FALSE ELSE @,
                           !.pending = @ - 1, !.events = @ + 1, !.last = "resolved"]

\* The promise of the action rejects: the .then has no second callback and
\* no .catch follows
ActionRejects ==
    /\ simpleDialog.pending > 0
    /\ simpleDialog' = [simpleDialog EXCEPT !.pending = @ - 1, !.events = @ + 1,
                                            !.last = "rejected"]

\* The parent sets the open prop (onClose from the backdrop, or opening the
\* dialog again)
SetOpen(open) ==
    /\ simpleDialog.events < MaxDialogEvents
    /\ simpleDialog.mounted
    /\ open # simpleDialog.open
    /\ simpleDialog' = [simpleDialog EXCEPT !.open = open, !.events = @ + 1, !.last = "open"]

\* The dialog is unmounted
DialogUnmount ==
    /\ simpleDialog.events < MaxDialogEvents
    /\ simpleDialog.mounted
    /\ simpleDialog' = [simpleDialog EXCEPT !.mounted = FALSE, !.events = @ + 1,
                                            !.last = "unmount"]

DialogInit == simpleDialog = NewSimpleDialog

DialogNext ==
    \/ ClickPrimary /\ UNCHANGED exceptDialog
    \/ ActionResolves /\ UNCHANGED exceptDialog
    \/ ActionRejects /\ UNCHANGED exceptDialog
    \/ \E open \in BOOLEAN : SetOpen(open) /\ UNCHANGED exceptDialog
    \/ DialogUnmount /\ UNCHANGED exceptDialog

InitDialog == DialogInit /\ IdleExceptDialog

SpecDialog == InitDialog /\ [][DialogNext]_vars

\* ------------------------------------------------------------------------
\* FileObject.rotate
\* ------------------------------------------------------------------------

\* orientations.indexOf(orientation), from 0 on
OrientationIndex(orientation) ==
    IF \E k \in 1..4 : Orientations[k] = orientation
    THEN (CHOOSE k \in 1..4 : Orientations[k] = orientation) - 1
    ELSE -1

\* const directions = { clockwise: 1, anticlockwise: -1 }
DirectionStep(direction) == IF direction = "clockwise" THEN 1 ELSE -1

\* orientations[(indexOf(this.orientation) + directions[direction] + 4) % 4]
NewOrientation(orientation, direction) ==
    Orientations[((OrientationIndex(orientation) + DirectionStep(direction) + 4) % 4) + 1]

\* Orientation, width and height of the file.
Shape(f) == [orientation |-> f.orientation, width |-> f.width, height |-> f.height]

\* A file as its record gave it.
NewRotFile(orientation, width, height) ==
    [orientation |-> orientation, width |-> width, height |-> height, save |-> NoSave,
     calls |-> 0, made |-> <<>>, last |-> "none", before |-> [orientation |-> orientation,
     width |-> width, height |-> height]]

\* file.rotate(direction) up to its await, the rotation before it being over:
\* updateSave({ orientation: newOrientation }) is under way
RotateCall(direction) ==
    /\ rotFile.calls < MaxRotations
    /\ ~rotFile.save.under
    /\ rotFile' = [rotFile EXCEPT
                      !.save = [under |-> TRUE, direction |-> direction,
                                orientation |-> NewOrientation(rotFile.orientation, direction)],
                      !.calls = @ + 1,
                      !.last = "call",
                      !.before = Shape(rotFile)]

\* The remote store accepts the save: updateSave sets the orientation and
\* rotate resumes, swapping width and height when the orientation is 6 or 8
RotateSaveResolves ==
    /\ rotFile.save.under
    /\ rotFile' = [rotFile EXCEPT
                      !.orientation = rotFile.save.orientation,
                      !.width = IF rotFile.save.orientation \in {6, 8} THEN rotFile.height ELSE @,
                      !.height = IF rotFile.save.orientation \in {6, 8} THEN rotFile.width ELSE @,
                      !.save = NoSave,
                      !.made = Append(@, [direction |-> rotFile.save.direction,
                                          before |-> Shape(rotFile)]),
                      !.last = "resolved"]

\* The remote store rejects the save: the await throws
RotateSaveRejects ==
    /\ rotFile.save.under
    /\ rotFile' = [rotFile EXCEPT !.save = NoSave, !.last = "rejected"]

RotateInit ==
    \E orientation \in {1, 6, 3, 8} : \E width \in 1..MaxSide : \E height \in 1..MaxSide :
        rotFile = NewRotFile(orientation, width, height)

RotateNext ==
    \/ \E direction \in RotateDirections : RotateCall(direction) /\ UNCHANGED exceptRotate
    \/ RotateSaveResolves /\ UNCHANGED exceptRotate
    \/ RotateSaveRejects /\ UNCHANGED exceptRotate

InitRotate == RotateInit /\ IdleExceptRotate

SpecRotate == InitRotate /\ [][RotateNext]_vars

\* ------------------------------------------------------------------------
\* PaginationDisplay: render and the page size selection
\* ------------------------------------------------------------------------

\* Math.ceil(a / b) for a >= 0 and b > 0
CeilDiv(a, b) == (a + b - 1) \div b

\* render: maxPage
MaxPage(p) == CeilDiv(p.totalCount, p.pageSize)

\* render: the pages listed, around the current page on a wide screen and
\* all of them on a narrow one
PageList(p) ==
    IF p.wide
    THEN {i \in 1..MaxPage(p) : i >= p.page - 4 /\ i <= p.page + 4}
    ELSE 1..MaxPage(p)

\* render: the pages a link or a menu item leads to, none when there is at
\* most one page
LinksShown(p) ==
    IF MaxPage(p) <= 1 THEN {}
    ELSE IF p.wide
    THEN PageList(p) \cup (IF p.page > 1 THEN {1} ELSE {})
                     \cup (IF p.page < MaxPage(p) THEN {MaxPage(p)} ELSE {})
    ELSE PageList(p)

\* A page computed by rounding down.
PageOfNewSizeFloor(totalCount, newSize) == totalCount \div newSize

\* onChange of the page size selection: the page of the new location
PageOfNewSize(totalCount, newSize) == CeilDiv(totalCount, newSize)

\* A display with the props given, on page 1.
NewPager(totalCount, pageSize, wide) ==
    [page |-> 1, pageSize |-> pageSize, totalCount |-> totalCount, wide |-> wide,
     events |-> 0, last |-> "none"]

\* The user selects a page size, which the display offers when it shows
\* anything
SelectPageSize(newSize) ==
    /\ pager.events < MaxPagerEvents
    /\ MaxPage(pager) > 1
    /\ pager' = [pager EXCEPT !.pageSize = newSize,
                              !.page = PageOfNewSize(pager.totalCount, newSize),
                              !.events = @ + 1, !.last = "size"]

\* The user follows a link, or picks a menu item, of the display
FollowLink(page) ==
    /\ pager.events < MaxPagerEvents
    /\ page \in LinksShown(pager)
    /\ pager' = [pager EXCEPT !.page = page, !.events = @ + 1, !.last = "link"]

\* The page of the address is set by hand
AddressPage(page) ==
    /\ pager.events < MaxPagerEvents
    /\ page # pager.page
    /\ pager' = [pager EXCEPT !.page = page, !.events = @ + 1, !.last = "address"]

\* The width of the screen changes
WidthChange ==
    /\ pager.events < MaxPagerEvents
    /\ pager' = [pager EXCEPT !.wide = ~@, !.events = @ + 1, !.last = "width"]

PagerInit ==
    \E totalCount \in 0..MaxTotal : \E pageSize \in PageSizeChoices : \E wide \in BOOLEAN :
        pager = NewPager(totalCount, pageSize, wide)

PagerNext ==
    \/ \E newSize \in PageSizeChoices : SelectPageSize(newSize) /\ UNCHANGED exceptPager
    \/ \E page \in 1..MaxUrlPage : FollowLink(page) /\ UNCHANGED exceptPager
    \/ \E page \in 0..MaxUrlPage : AddressPage(page) /\ UNCHANGED exceptPager
    \/ WidthChange /\ UNCHANGED exceptPager

InitPager == PagerInit /\ IdleExceptPager

SpecPager == InitPager /\ [][PagerNext]_vars

\* ------------------------------------------------------------------------
\* Properties of promiseChain (checked under SpecChain)
\* ------------------------------------------------------------------------
Started == 1..Len(invoked)
Succeeded == {i \in 1..Len(list) : link[i].state = "fulfilled"}
AfterEvents == SelectSeq(events, LAMBDA e : e.kind = "after")
BeforeEvents == SelectSeq(events, LAMBDA e : e.kind = "before")

\* C1: the callback of item i+1 is invoked only after the callback of item i has
\* called resolve, callbacks are invoked in list order, and at no time are two
\* callbacks started and not yet resolved.
C1_Sequential ==
    /\ \A j \in Started : invoked[j].idx = j
    /\ \A j \in Started : j > 1 => link[j - 1].state = "fulfilled"
    /\ Cardinality({i \in Started : link[i].state # "fulfilled"}) <= 1

\* The third callback is in flight after the first two resolved, one of them
\* having called resolve again in the meantime.
C1_Witness ==
    /\ Len(invoked) = 3
    /\ link[3].state = "inflight"
    /\ extraCalls = 1

\* C2: if the callback of item k rejects with a reason, the returned promise is
\* rejected with that reason, no callback is invoked and no event fires for an
\* item after k, and the last "after" event delivered carries the accumulator
\* produced by item k-1 (there is none when k is the first item).
C2_FailFast ==
    \A k \in 1..Len(list) :
        link[k].state = "rejected" =>
            /\ final = Rejected(link[k].value)
            /\ Len(invoked) = k
            /\ \A n \in 1..Len(events) : events[n].idx <= k
            /\ AfterEvents # <<>> =>
                  /\ k > 1
                  /\ AfterEvents[Len(AfterEvents)].idx = k - 1
                  /\ AfterEvents[Len(AfterEvents)].result = invoked[k].accumulator

\* C3: the first callback is passed the initial value, each later callback the
\* value the previous item resolved with; the returned promise resolves with the
\* last item's value, or with the initial value for an empty list, for which no
\* callback is invoked; with appending steps the result is the initial value
\* followed by the list in its order.
C3_Threading ==
    /\ \A j \in Started :
          invoked[j].accumulator = IF j = 1 THEN initial ELSE link[j - 1].value
    /\ list = <<>> => final = Fulfilled(initial) /\ invoked = <<>>
    /\ list # <<>> =>
          /\ final.state = "fulfilled" <=> link[Len(list)].state = "fulfilled"
          /\ final.state = "fulfilled" => final.value = link[Len(list)].value
    /\ ( /\ final.state = "fulfilled"
         /\ \A i \in 1..Len(list) :
               link[i].value = Append(invoked[i].accumulator, list[i]) )
       => final.value = initial \o list

\* A run of three appending steps has resolved with the initial value followed
\* by the three items.
C3_Witness ==
    /\ Len(list) = 3
    /\ initial # <<>>
    /\ final = Fulfilled(initial \o list)

\* C4: events come in the order before(i), after(i) by item; the "before" event of
\* the i-th item (counting from 0) carries doneCount = i and the accumulator, its
\* "after" event doneCount = i+1 and the step's result; doneCount is the number
\* of steps that have succeeded and lies in 0..totalCount = Len(list).
C4_Progress ==
    /\ done = Cardinality(Succeeded)
    /\ \A n \in 1..Len(events) :
          LET e == events[n] IN
          /\ e.totalCount = Len(list)
          /\ e.doneCount \in 0..e.totalCount
          /\ e.item = list[e.idx]
          /\ e.kind = "before" =>
                e.doneCount = e.idx - 1 /\ e.result = invoked[e.idx].accumulator
          /\ e.kind = "after" =>
                e.doneCount = e.idx /\ e.result = link[e.idx].value
          /\ n > 1 =>
                \/ events[n - 1].idx < e.idx
                \/ events[n - 1].idx = e.idx /\ events[n - 1].kind = "before"
                                             /\ e.kind = "after"

\* C5: no continuation runs while the caller of promiseChain is still running, so
\* a handler attached then misses nothing: a "before" handler set before any
\* callback was invoked has received one event per invoked callback, in order, an
\* "after" handler set before any resolve one event per resolve, one for each
\* succeeded item; the steps run in list order whatever handlers are set.
C5_EarlyHandler ==
    /\ phase = "sync" => invoked = <<>> /\ done = 0 /\ events = <<>>
    /\ beforeSince = 0 =>
          /\ Len(BeforeEvents) = Len(invoked)
          /\ \A j \in Started : BeforeEvents[j].idx = j
    /\ afterSince = 0 =>
          /\ Len(AfterEvents) = done
          /\ \A i \in Succeeded : \E n \in 1..Len(AfterEvents) :
                AfterEvents[n].idx = i /\ AfterEvents[n].result = link[i].value
    /\ \A j \in Started : invoked[j].idx = j

\* Both handlers were attached before the caller returned, and the events of
\* all three items, the first included, have been delivered.
C5_Witness ==
    /\ Len(list) = 3
    /\ beforeSince = 0
    /\ afterSince = 0
    /\ final.state = "fulfilled"
    /\ Len(events) = 6
    /\ events[1].kind = "before" /\ events[1].idx = 1
    /\ events[2].kind = "after" /\ events[2].idx = 1

\* ------------------------------------------------------------------------
\* Properties of getContentObjects (checked under SpecCache)
\* ------------------------------------------------------------------------

\* The entry e holds every slot of the requested page, and the page does not
\* start at or beyond a positive cached count.
Servable(e, page, pageSize) ==
    /\ e.has
    /\ ~(e.count > 0 /\ (page - 1) * pageSize >= e.count)
    /\ EveryKnown(PageIds(e, page, pageSize))

\* Slot i (counted from 1) lies outside the range of the page.
OutsidePage(i, page, pageSize) == i <= (page - 1) * pageSize \/ i > page * pageSize

\* C6: a call that finds an entry with every slot of its page known returns that
\* slice and the cached count, issues no remote call and leaves the entry alone;
\* and a call that repeats the call that has just resolved, with the same page,
\* page size and search key and nothing happening in between, issues no remote
\* call, so that the two calls issue at most the one fetch of the first.
C6_RepeatNoFetch ==
    /\ (ret.kind # "none" /\ Servable(ret.existing, ret.page, ret.pageSize)) =>
          /\ ret.kind = "cached"
          /\ ~ret.fetched
          /\ ret.objectIds = PageIds(ret.existing, ret.page, ret.pageSize)
          /\ ret.count = ret.existing.count
          /\ contents[ret.key] = ret.existing
    /\ \A call \in BagToSet(calls) : ~Servable(call.existing, call.page, call.pageSize)
    /\ ret.repeat => ~ret.fetched
    /\ \A call \in BagToSet(calls) : ~call.repeat

C8_FrameOutsidePage ==
    (ret.kind = "fetched" /\ ret.alone /\ ret.existing.has) =>
        \A i \in 1..Min(Len(ret.prior.objectIds), Len(ret.after.objectIds)) :
            OutsidePage(i, ret.page, ret.pageSize) =>
                ret.after.objectIds[i] = ret.prior.objectIds[i]

\* C9: when a fetch that was in flight together with another one resolves (the
\* remote contents never having changed), its ids are in the slots of its page,
\* and every slot outside its page that was known before it resolved, filled by
\* the other fetch or earlier, still holds the same id afterwards.
C9_LastWriterPerSlot ==
    (ret.kind = "fetched" /\ ~ret.alone /\ changes = 0) =>
        /\ \A j \in 1..Len(ret.objectIds) :
              /\ (ret.page - 1) * ret.pageSize + j <= Len(ret.after.objectIds)
              /\ ret.after.objectIds[(ret.page - 1) * ret.pageSize + j] = ret.objectIds[j]
        /\ \A i \in 1..Len(ret.prior.objectIds) :
              (OutsidePage(i, ret.page, ret.pageSize) /\ ret.prior.objectIds[i] # Null) =>
                  /\ i <= Len(ret.after.objectIds)
                  /\ ret.after.objectIds[i] = ret.prior.objectIds[i]

\* C10: once a search key has an entry, the length of its id sequence is its
\* count, in every state.
C10_LengthIsCount ==
    \A k \in Keys : contents[k].has => Len(contents[k].objectIds) = contents[k].count

\* The position, in the remote contents, of the content object with an id.
PositionOf(id) == id % 10

\* C19: a call that returns a page of which the reported count c makes a
\* partial page, (page-1)*pageSize < c < page*pageSize, returns exactly
\* c - (page-1)*pageSize ids, those of the positions (page-1)*pageSize + 1 .. c
\* (counted from 1), whether the page was fetched or served from the cache.
C19_PartialPage ==
    ( /\ ret.kind \in {"cached", "fetched"}
      /\ (ret.page - 1) * ret.pageSize < ret.count
      /\ ret.count < ret.page * ret.pageSize ) =>
        /\ Len(ret.objectIds) = ret.count - (ret.page - 1) * ret.pageSize
        /\ \A j \in 1..Len(ret.objectIds) :
              PositionOf(ret.objectIds[j]) = (ret.page - 1) * ret.pageSize + j

\* ------------------------------------------------------------------------
\* Properties of getContents, getRoots and getContentObjects over several
\* containers and search keys (checked under SpecRoots)
\* ------------------------------------------------------------------------

\* C13: a step of a getContents call for search key k1 of a container leaves the
\* roots and contents entries of every other search key of that container, and
\* every entry of the other containers, as they were; and whatever the other
\* keys hold, a call that finds the roots of its key stored, or every slot of
\* its page known, is served from them without a remote fetch.
C13_KeysApart ==
    [][ /\ \A c \in Containers : \A k \in Keys :
              (step'.container # c \/ step'.key # k) =>
                  /\ rootModels'[c].roots[k] = rootModels[c].roots[k]
                  /\ rootModels'[c].contents[k] = rootModels[c].contents[k]
        /\ ( /\ step'.op = "getRoots"
             /\ rootModels[step'.container].roots[step'.key].has ) =>
               /\ ~step'.fetch
               /\ step'.objectIds = rootModels[step'.container].roots[step'.key].objectIds
        /\ ( /\ step'.op = "getContentObjects"
             /\ Servable(rootModels[step'.container].contents[step'.key],
                         step'.page, ViewPageSize) ) =>
               /\ ~step'.fetch
               /\ step'.kind = "cached"
               /\ step'.objectIds = PageIds(rootModels[step'.container].contents[step'.key],
                                            step'.page, ViewPageSize)
      ]_vars

\* The Folder holds roots and contents for both search keys, and a call for the
\* null key has just been served from the cache.
C13_Witness ==
    /\ \A k \in Keys : rootModels[1].roots[k].has /\ rootModels[1].contents[k].has
    /\ step.op = "getContentObjects"
    /\ step.container = 1
    /\ step.key = NullKey
    /\ step.kind = "cached"
    /\ step.objectIds # <<>>

\* C14: getRoots of a Folder issues a remote fetch exactly when no roots are
\* stored for the search key, and otherwise returns the stored ids; stored roots
\* never change afterwards; an absent or empty searchQuery reads the null key;
\* getRoots of an Album returns null, never fetches and stores nothing.
C14_RootsOnce ==
    [][ /\ step'.op = "getRoots" =>
              /\ step'.query \in {Undefined, ""} => step'.key = NullKey
              /\ step'.had = rootModels[step'.container].roots[step'.key].has
              /\ ContainerClass(step'.container) = "Album" =>
                    step'.kind = "null" /\ ~step'.fetch
              /\ ContainerClass(step'.container) = "Folder" =>
                    /\ step'.fetch <=> ~step'.had
                    /\ step'.had =>
                          /\ step'.kind = "cached"
                          /\ step'.objectIds =
                                rootModels[step'.container].roots[step'.key].objectIds
        /\ \A c \in Containers : \A k \in Keys :
              /\ rootModels[c].roots[k].has => rootModels'[c].roots[k] = rootModels[c].roots[k]
              /\ ContainerClass(c) = "Album" => ~rootModels'[c].roots[k].has
      ]_vars

\* getRoots of the Folder, called with an empty searchQuery, has returned the
\* roots stored under the null key.
C14_Witness ==
    /\ step.op = "getRoots"
    /\ step.container = 1
    /\ step.query = ""
    /\ step.kind = "cached"
    /\ step.objectIds = rootModels[1].roots[NullKey].objectIds
    /\ step.objectIds # <<>>

\* ------------------------------------------------------------------------
\* Properties of the album mutations (checked under SpecAlbum)
\* ------------------------------------------------------------------------

\* C11: once the client knows that the remote store accepted an addFile, an
\* addFiles or a changeParent, no read of an album whose contents the mutation
\* changed (the album and its ancestors) is served from an entry populated
\* before the mutation.
C11_ClearedBeforeRead == albumStep.kind = "cached" => ~albumStep.wasDirty

\* C12: the first getContentObjects called on an album after addFiles has
\* resolved on it reports the count the album has with the added files.
C12_CountAfterAddFiles ==
    albumStep.kind \in {"cached", "fetched"} /\ albumStep.expected # 0
        => albumStep.count = albumStep.expected

\* ------------------------------------------------------------------------
\* Properties of the model operations (checked under SpecOps)
\* ------------------------------------------------------------------------

\* C15: every operation called settles in the end, and when the remote store
\* rejected, it is rejected with the remote store's error.
C15_Settles ==
    \A s \in Slots :
        (opCalls[s].stage = "awaiting") ~>
            (\/ opCalls[s].stage = "resolved"
             \/ opCalls[s].stage = "rejected"
                /\ (opCalls[s].answer \in RemoteErrors => opCalls[s].value = opCalls[s].answer))

\* ------------------------------------------------------------------------
\* Properties of apiRequest (checked under SpecApi)
\* ------------------------------------------------------------------------

\* C16: a request whose response has arrived and was handled settles the
\* promise exactly once, resolving it exactly when the status is 200, 201 or
\* 204 and rejecting it, in every other case, with an object that has a detail
\* field.
C16_StructuredRejection ==
    api.stage = "settled" /\ api.status # 0 =>
        /\ api.settles = 1
        /\ api.kind = "resolved" <=> StatusOk(api.status)
        /\ api.kind = "rejected" => HasDetail(api.value)

\* ------------------------------------------------------------------------
\* Properties of GridView.getData (checked under SpecGrid)
\* ------------------------------------------------------------------------

\* C17: a getContents that fails with InvalidPage from the cache made no remote
\* request; the error handler resets the page to 1 exactly for the rejection
\* with detail "Invalid page." and throws every other rejection value as it
\* got it; page 1 never fails with InvalidPage from the cache, and a navigation
\* is reset at most once.
C17_InvalidPageRecovery ==
    /\ grid.fromCache => grid.stage = "rejected" /\ grid.page # 1
    /\ grid.handled = "reset" => IsInvalidPage(grid.error)
    /\ grid.handled = "throw" => ~IsInvalidPage(grid.error) /\ grid.thrown = grid.error
    /\ grid.resets <= 1

\* ------------------------------------------------------------------------
\* Properties of ImageLoader (checked under SpecImage)
\* ------------------------------------------------------------------------

\* C18: a load result, success or failure, that arrives for a model other than
\* the component's current one changes neither imageData nor loadState and
\* starts no load for the model it was requested for.
C18_StaleResultDiscarded == arrived.stale => ~arrived.changed /\ ~arrived.reloaded

\* ------------------------------------------------------------------------
\* Properties of the entity registry (checked under SpecRegistry)
\* ------------------------------------------------------------------------

\* The instance with an id among the instances of a type.
InstanceOf(type, id) == registry.objects[type][IndexOfId(registry.objects[type], id)]

\* C20: every type holds at most one instance per id and no instance is
\* registered twice; after addObject with a record, getById of its id gives
\* the instance it gave before, if it gave one, with the fields of the record;
\* the same holds for the geotag added while the record of a file is
\* deserialized.
C20_OneInstancePerId ==
    /\ \A t \in EntityTypes : \A i, j \in 1..Len(registry.objects[t]) :
          (registry.objects[t][i].id = registry.objects[t][j].id
              \/ registry.objects[t][i].ref = registry.objects[t][j].ref) => i = j
    /\ regStep.op \in {"addObject", "create"} =>
          /\ GetById(registry, regStep.type, regStep.id) # NotFound
          /\ regStep.before # NotFound =>
                GetById(registry, regStep.type, regStep.id) = regStep.before
          /\ InstanceOf(regStep.type, regStep.id).data = regStep.data
          /\ regStep.geotag # NoGeotag =>
                /\ GetById(registry, "geotag", regStep.geotag.id) # NotFound
                /\ regStep.geotagBefore # NotFound =>
                      GetById(registry, "geotag", regStep.geotag.id) = regStep.geotagBefore
                /\ InstanceOf("geotag", regStep.geotag.id).data = regStep.geotag.data
                /\ InstanceOf("file", regStep.id).geotagID = regStep.geotag.id

\* A file record is added again, its geotag being registered already: both
\* instances are the ones of before.
C20_Witness ==
    /\ regStep.op = "addObject" /\ regStep.type = "file"
    /\ regStep.before # NotFound
    /\ regStep.geotagBefore # NotFound
    /\ InstanceOf("file", regStep.id).data = regStep.data

\* ------------------------------------------------------------------------
\* Properties of the geotag relation (checked under SpecGeo)
\* ------------------------------------------------------------------------

\* C21: serializing the geotag of a file and deserializing the result leaves
\* the geotagID of the file as it was; a geotag that is not null is serialized
\* with its id, null is serialized as null and deserialized as null.
C21_RoundTrip ==
    /\ fileGeo.stage \in {"serialized", "roundtrip"} =>
          /\ fileGeo.wire.isNull <=> fileGeo.before = Null
          /\ ~fileGeo.wire.isNull => fileGeo.wire.id = fileGeo.before
    /\ fileGeo.stage = "roundtrip" => fileGeo.geotagID = fileGeo.before

\* The geotag of a file, its location modified, has gone through a round trip.
C21_Witness ==
    /\ fileGeo.stage = "roundtrip"
    /\ fileGeo.before # Null
    /\ fileGeo.wire.hasLocation

\* ------------------------------------------------------------------------
\* Properties of GridView under changing props (checked under SpecProps)
\* ------------------------------------------------------------------------

\* C22: once every load under way has settled, the handler the view holds is
\* the one for the root object and page of the latest props (none when the
\* latest rootId is null) and the data displayed is that of the latest props.
C22_LatestProps ==
    propLoads = EmptyBag =>
        /\ gridView.updateHandler = HandlerOf(gridView.props)
        /\ gridView.data = DataOf(gridView.props)

\* ------------------------------------------------------------------------
\* Further properties of ImageLoader (checked under SpecImage)
\* ------------------------------------------------------------------------

\* C23: isLoading is true only while a load whose result is awaited is under
\* way: once every load issued has settled (resolved, rejected, or resolved
\* for a previous model and discarded), isLoading is false.
C23_LoadingOnlyInFlight == loads = EmptyBag => ~image.isLoading

\* ------------------------------------------------------------------------
\* Properties of the album hierarchy (checked under SpecTree)
\* ------------------------------------------------------------------------

\* Whether a sequence holds no value twice.
NoRepeats(seq) == \A j, k \in 1..Len(seq) : seq[j] = seq[k] => j = k

\* C24: every updateParents ends, visits the album and each of its ancestors
\* once, in order from the album up to a root-level album, leaves the cache
\* of each visited album cleared and issues one reload request, for exactly
\* the ids visited.
C24_UpdateParentsWalk ==
    \A w \in 1..Len(treeStep.walks) :
        LET walk == treeStep.walks[w] IN
        /\ walk.outcome = "done"
        /\ NoRepeats(walk.visited)
        /\ walk.visited[1] = walk.start
        /\ \A k \in 1..(Len(walk.visited) - 1) :
              walk.visited[k + 1] = albumTree.parentID[walk.visited[k]]
        /\ albumTree.parentID[walk.visited[Len(walk.visited)]] = Null
        /\ \A k \in 1..Len(walk.visited) : walk.visited[k] \notin albumTree.cached
        /\ walk.requests = <<walk.visited>>

\* What changeParent is to do after a save that succeeded: updateParents on
\* the old parent and on the new one, where there is one, then one round of
\* the list update handlers.
AfterSave(oldParent, newParent) ==
    (IF oldParent = Null THEN <<>> ELSE <<Event("updateParents", oldParent)>>)
    \o (IF newParent = Null THEN <<>> ELSE <<Event("updateParents", newParent)>>)
    \o <<Event("handle", 0)>>

\* C25: a changeParent whose remote save succeeded has run updateParents on
\* the old parent, then on the new parent, then the list update handlers
\* once, whatever the album and the target (an album without parent and a
\* move to root level included); one whose save failed has cleared no cache,
\* run no handler and left the parent as it was.
C25_ChangeParentOrder ==
    treeStep.op = "Album.changeParent" /\ treeStep.resp # "none" =>
        IF treeStep.resp = "ok"
        THEN /\ treeStep.log = AfterSave(treeStep.oldParent, treeStep.newParent)
             /\ albumTree.parentID[treeStep.album] = treeStep.newParent
        ELSE /\ treeStep.log = <<>>
             /\ albumTree.cached = treeStep.before.cached
             /\ albumTree.parentID = treeStep.before.parentID

\* The events of adding files one after the other: the create of each is
\* issued and resolves before the next.
RECURSIVE Adds(_)
Adds(files) ==
    IF files = <<>> THEN <<>>
    ELSE <<Event("create", Head(files)), Event("resolved", Head(files))>> \o Adds(Tail(files))

\* C26: addFiles issues the create of each file after that of the previous
\* one resolved, in list order, and calls updateParents once, after the last;
\* addFile calls updateParents once after its create resolved when multiple
\* is false and never when it is true.
C26_AddFilesOrder ==
    /\ \A task \in BagToSet(treeTasks) :
          task.op = "Album.addFiles" /\ task.i > 0 =>
             task.log = Adds(SubSeq(task.files, 1, task.i - 1))
                           \o <<Event("create", task.files[task.i])>>
    /\ treeStep.op = "Album.addFiles" /\ treeStep.resp = "ok" =>
          treeStep.log = Adds(treeStep.files) \o <<Event("updateParents", treeStep.album)>>
    /\ treeStep.op = "Album.addFiles" /\ treeStep.resp # "ok" =>
          \A k \in 1..Len(treeStep.log) : treeStep.log[k].e # "updateParents"
    /\ treeStep.op = "Album.addFile" /\ treeStep.resp = "ok" =>
          treeStep.log = Adds(treeStep.files)
                            \o (IF treeStep.multiple THEN <<>>
                                ELSE <<Event("updateParents", treeStep.album)>>)
    /\ treeStep.op = "Album.addFile" /\ treeStep.resp # "ok" =>
          treeStep.log = <<Event("create", treeStep.files[1])>>

\* addFiles with two files has resolved.
C26_Witness ==
    /\ treeStep.op = "Album.addFiles"
    /\ treeStep.files = <<7, 8>>
    /\ treeStep.outcome = "resolved"

\* C27: the registry gains an album only in the step in which a create
\* learns that the remote store accepted and loses one only in the step in
\* which a delete does; a create or delete the remote store rejected leaves
\* the registry as it was, notifies nobody and rejects with the remote's
\* reason.
C27_RegistryAfterRemote ==
    /\ [](treeStep.op \in {"Album.create", "Album.delete"} =>
            IF treeStep.resp = "ok"
            THEN /\ treeStep.outcome = "resolved"
                 /\ treeStep.op = "Album.create" =>
                       /\ treeStep.album \in albumTree.registered
                       /\ treeStep.album \notin treeStep.before.registered
                       /\ treeStep.log = <<Event("created", treeStep.album)>>
                 /\ treeStep.op = "Album.delete" => treeStep.album \notin albumTree.registered
            ELSE /\ albumTree.registered = treeStep.before.registered
                 /\ albumTree.parentID = treeStep.before.parentID
                 /\ treeStep.log = <<>>
                 /\ treeStep.outcome = "rejected"
                 /\ treeStep.reason = treeStep.resp)
    /\ [][albumTree'.registered # albumTree.registered =>
            /\ treeStep'.op \in {"Album.create", "Album.delete"}
            /\ treeStep'.resp = "ok"]_vars

\* A delete the remote store rejected has ended.
C27_Witness ==
    /\ treeStep.op = "Album.delete"
    /\ treeStep.resp \in RemoteErrors
    /\ treeStep.outcome = "rejected"

\* The albums above an album along parentID.
RECURSIVE Above(_, _, _)
Above(parentOf, S, n) ==
    IF n = 0 THEN S
    ELSE Above(parentOf, S \cup ({parentOf[b] : b \in S} \ {Null}), n - 1)

ProperAncestors(parentOf, a) ==
    Above(parentOf, {parentOf[a]} \ {Null}, Cardinality(AlbumIds))

\* C28: no registered album is its own parent or ancestor.
C28_AcyclicParents ==
    \A a \in albumTree.registered : a \notin ProperAncestors(albumTree.parentID, a)

\* ------------------------------------------------------------------------
\* Properties of ImageLoader with a fixed model and fixed props (checked
\* under SpecSizes)
\* ------------------------------------------------------------------------

\* The sizes asked for go up strictly, none is above maxSize, and there are
\* no more of them than there are sizes up to maxSize.
SizesInOrder ==
    /\ \A j, k \in 1..Len(fixedImage.requested) :
          j < k => fixedImage.requested[j] < fixedImage.requested[k]
    /\ \A k \in 1..Len(fixedImage.requested) : fixedImage.requested[k] <= fixedImage.maxSize
    /\ Len(fixedImage.requested) <= fixedImage.maxSize + 1

C30_AddressOfCurrentProps ==
    /\ [](/\ addressBar.arrival.set =>
              /\ addressBar.arrival.rootType = addressBar.props.rootType
              /\ addressBar.arrival.rootId = addressBar.props.rootId
          /\ addressLoads = EmptyBag /\ ~addressBar.failed =>
                addressBar.address = GetAddress(addressBar.props))
    /\ [][addressBar'.address # addressBar.address => addressBar'.arrival.set]_vars

\* The address of a folder is shown after the result for earlier props
\* arrived last and was left aside.
C30_Witness ==
    /\ addressLoads = EmptyBag
    /\ addressBar.arrival.result = "resolved"
    /\ ~addressBar.arrival.set
    /\ addressBar.props.rootType = "folders"
    /\ addressBar.address = "one/two"

\* C31: rootAlbums gives exactly the registered albums without parent,
\* children of an album exactly the registered albums whose parent it is, and
\* every registered album is among rootAlbums or among the children of
\* exactly one album.
C31_RootsAndChildren ==
    /\ ~RootAlbums(albumTree).threw
    /\ RootAlbums(albumTree).albums = {a \in albumTree.registered : albumTree.parentID[a] = Null}
    /\ \A a \in albumTree.registered :
          /\ ~Children(albumTree, a).threw
          /\ Children(albumTree, a).albums
                = {b \in albumTree.registered : albumTree.parentID[b] = a}
    /\ \A b \in albumTree.registered :
          \/ b \in RootAlbums(albumTree).albums
                /\ \A a \in albumTree.registered : b \notin Children(albumTree, a).albums
          \/ b \notin RootAlbums(albumTree).albums
                /\ Cardinality({a \in albumTree.registered :
                                   b \in Children(albumTree, a).albums}) = 1

\* ------------------------------------------------------------------------
\* Properties of SelectionManager (checked under SpecSelection)
\* ------------------------------------------------------------------------

\* The ids of a list.
IdsOf(items) == {items[k] : k \in 1..Len(items)}

\* C32: after select(id, Extend) every selected element is in the object
\* list, whatever was selected before, and with the last selected id in the
\* list the selection is the part of the list between the two, in list order.
C32_ExtendWithinList ==
    selView.last.call = "select" /\ selView.last.mode = Extend =>
        /\ IdsOf(selView.selection) \subseteq IdsOf(selView.objectList)
        /\ Includes(selView.objectList, selView.last.last) =>
              \E lo, hi \in 1..Len(selView.objectList) :
                 /\ {selView.objectList[lo], selView.objectList[hi]}
                       = {selView.last.last, selView.last.id}
                 /\ selView.selection = SubSeq(selView.objectList, lo, hi)

\* The indexes of the list that lie beyond the open item in a direction and
\* pass the filter of its type.
Beyond(v, direction) ==
    LET open == GetOpenItem(v.query)
        at == IndexOf(v.objectList, open.id) + 1
    IN {k \in 1..Len(v.objectList) :
           /\ (k - at) * direction > 0
           /\ OpenFilter(open.type, open.id, v.objectList[k])}

\* C33: getAdjacentItemId gives the id nearest to the open item, in the
\* direction, that passes the filter, and null when there is none, when the
\* open item is not in the list and when no item is open.
C33_AdjacentOrNull ==
    \A direction \in {-1, 1} :
        LET open == GetOpenItem(selView.query)
            got == GetAdjacentItemId(selView, direction)
            beyond == Beyond(selView, direction)
        IN IF open.isNull \/ ~Includes(selView.objectList, open.id) \/ beyond = {}
           THEN got.kind = "null"
           ELSE /\ got.kind = "value"
                /\ \E k \in beyond :
                      /\ got.value = selView.objectList[k]
                      /\ \A j \in beyond : (j - k) * direction >= 0

\* C36: select(id, Toggle) adds the id when it is not selected and takes it
\* out when it is, the other ids staying; two of them in a row give the
\* selected set back; the selection holds no id twice, and lastSelected is
\* the id of the last select.
C36_Toggle ==
    /\ selView.last.call = "select" /\ selView.last.mode = Toggle =>
          /\ IdsOf(selView.selection) \ {selView.last.id}
                = IdsOf(selView.last.before) \ {selView.last.id}
          /\ selView.last.id \in IdsOf(selView.selection)
                <=> selView.last.id \notin IdsOf(selView.last.before)
    /\ \A id \in ModelIds :
          IdsOf(ToggleSelection(ToggleSelection(selView.selection, id), id))
             = IdsOf(selView.selection)
    /\ \A j, k \in 1..Len(selView.selection) :
          selView.selection[j] = selView.selection[k] => j = k
    /\ selView.last.call = "select" => selView.lastSelected = selView.last.id

\* An id has been toggled out of a selection of two.
C36_Witness ==
    /\ selView.last.call = "select"
    /\ selView.last.mode = Toggle
    /\ Len(selView.last.before) = 2
    /\ Len(selView.selection) = 1

\* ------------------------------------------------------------------------
\* Properties of FileObject.geotagAreaName (checked under SpecArea)
\* ------------------------------------------------------------------------

\* C34: reading geotagAreaName does not fail; it gives 'None' for a file
\* without geotag and for a geotag without area, and the name of the area
\* otherwise.
C34_AreaName ==
    namedFile.last.read =>
        /\ namedFile.last.kind = "value"
        /\ namedFile.last.name =
              IF namedFile.geotagID = Null THEN "None"
              ELSE IF namedFile.areaID[namedFile.geotagID] = Null THEN "None"
              ELSE NameOfArea(namedFile.areaID[namedFile.geotagID])

\* ------------------------------------------------------------------------
\* Properties of Input (checked under SpecInput)
\* ------------------------------------------------------------------------

\* C35: isDown is false for a key that was never pressed, for a key whose
\* last event was a keyup and for every key after clearKeysDown, the space
\* bar (asked for as 'Space') included.
C35_UpAfterKeyup ==
    \A key \in EventKeys : key \notin input.held => ~IsDown(input, NameOfKey(key))

\* ------------------------------------------------------------------------
\* Properties of SimpleDialog (checked under SpecDialog)
\* ------------------------------------------------------------------------

\* C37: the action is not started while an invocation of it is under way,
\* and when its promise has settled, resolved or rejected, loading is false
\* again.
C37_LoadingWhilePending ==
    /\ simpleDialog.pending <= 1
    /\ simpleDialog.mounted /\ simpleDialog.last \in {"resolved", "rejected"}
          => ~simpleDialog.loading

\* ------------------------------------------------------------------------
\* Properties of FileObject.rotate (checked under SpecRotate)
\* ------------------------------------------------------------------------

\* The cycle 1 -> 6 -> 3 -> 8 -> 1.
ClockwiseOf(orientation) ==
    IF orientation = 1 THEN 6 ELSE IF orientation = 6 THEN 3
    ELSE IF orientation = 3 THEN 8 ELSE 1

\* A rotation made takes the orientation one step along the cycle.
RotateCycle ==
    rotFile.last = "resolved" =>
        LET n == Len(rotFile.made) IN
        IF rotFile.made[n].direction = "clockwise"
        THEN rotFile.orientation = ClockwiseOf(rotFile.made[n].before.orientation)
        ELSE rotFile.made[n].before.orientation = ClockwiseOf(rotFile.orientation)

\* A rotation clockwise and then one anticlockwise give orientation, width
\* and height back.
RotateThereAndBack ==
    LET n == Len(rotFile.made) IN
    (/\ n >= 2
     /\ rotFile.made[n - 1].direction = "clockwise"
     /\ rotFile.made[n].direction = "anticlockwise")
        => Shape(rotFile) = rotFile.made[n - 1].before

\* Four rotations in one direction give orientation, width and height back.
RotateFourTimes ==
    LET n == Len(rotFile.made) IN
    (/\ n >= 4
     /\ \A k \in (n - 3)..n : rotFile.made[k].direction = rotFile.made[n].direction)
        => Shape(rotFile) = rotFile.made[n - 3].before

\* A save that fails leaves orientation, width and height as they were.
RotateFailed == rotFile.last = "rejected" => Shape(rotFile) = rotFile.before

\* C38: rotate takes the orientation along the cycle 1 -> 6 -> 3 -> 8 -> 1
\* clockwise and backwards anticlockwise; clockwise then anticlockwise, and
\* four times one direction, give orientation, width and height back; a
\* failed save leaves the three unchanged.
C38_Rotate == RotateCycle /\ RotateThereAndBack /\ RotateFourTimes /\ RotateFailed

\* ------------------------------------------------------------------------
\* Properties of PaginationDisplay (checked under SpecPager)
\* ------------------------------------------------------------------------

\* C39: the page a selection of the page size leads to is at least 1 and
\* starts before the total count; every page a link leads to is one of
\* 1..ceil(totalCount / pageSize), and with at most one page nothing is shown.
C39_PagesWithinRange ==
    /\ pager.last = "size" /\ pager.totalCount > 0 =>
          /\ pager.page >= 1
          /\ (pager.page - 1) * pager.pageSize < pager.totalCount
    /\ \A page \in LinksShown(pager) :
          /\ page >= 1
          /\ page * pager.pageSize < pager.totalCount + pager.pageSize
    /\ pager.totalCount <= pager.pageSize => LinksShown(pager) = {}

\* A smaller page size was selected, the page is the last of several and
\* links are shown.
C39_Witness ==
    /\ pager.last = "size"
    /\ pager.page > 1
    /\ LinksShown(pager) # {}

====
